---- MODULE Spec2Model ----
(***************************************************************************)
(* Credential resolution of the PPC dashboard (lib/credentials): the       *)
(* environment lookup, the decode chain (percent-decoding, JSON.parse,     *)
(* base64), the structural validator, the component assembler and the      *)
(* resolver entry point resolveGCPCredentials; and the route handlers that *)
(* use it or guard the dashboard: bigquery-data, optimization-results,     *)
(* optimization-status, optimization-error, credentials-debug,             *)
(* config-check and setup-guide.                                           *)
(*                                                                         *)
(* A handler runs from the request to its first await, and from the end of *)
(* one await to the next or to its answer; each such stretch is one step,  *)
(* and the stretches of the requests in flight interleave.                 *)
(*                                                                         *)
(* A JavaScript string whose characters the code inspects is a sequence of *)
(* one-character strings; a text the code only builds (a message, a        *)
(* source label) is a TLA+ string.  Environment-variable names are TLA+    *)
(* strings; the numbered split-part variables of a name are records.       *)
(***************************************************************************)
EXTENDS Integers, Sequences, FiniteSets, TLC

VARIABLES env, resolution, result, steps, requests, effects

vars == <<env, resolution, result, steps, requests, effects>>

(***************************************************************************)
(* Bounds of the model.                                                    *)
(***************************************************************************)
\* how many environment variables an environment sets
MaxSet == 2
\* how many requests the process takes in a behaviour, where it takes more
\* than one
MaxRequests == 2
\* how many leading names of each candidate list an environment may set
MaxNames == 2

(***************************************************************************)
(* Characters.                                                             *)
(***************************************************************************)
\* the characters of a text
Chars(text) == [ i \in 1..Len(text) |-> SubSeq(text, i, i) ]

\* the printable ASCII characters, from the space (code 32) to the tilde
\* (code 126); the grave accent (code 96) is written U+96
Printable ==
  << " ", "!", "\"", "#", "$", "%", "&", "'", "(", ")", "*", "+", ",", "-", ".", "/",
     "0", "1", "2", "3", "4", "5", "6", "7", "8", "9", ":", ";", "<", "=", ">", "?",
     "@", "A", "B", "C", "D", "E", "F", "G", "H", "I", "J", "K", "L", "M", "N", "O",
     "P", "Q", "R", "S", "T", "U", "V", "W", "X", "Y", "Z", "[", "\\", "]", "^", "_",
     "U+96", "a", "b", "c", "d", "e", "f", "g", "h", "i", "j", "k", "l", "m", "n", "o",
     "p", "q", "r", "s", "t", "u", "v", "w", "x", "y", "z", "{", "|", "}", "~" >>

Range(f) == { f[i] : i \in DOMAIN f }

\* the character of a code point; one outside printable ASCII, tab, LF, FF
\* and CR is written U+<decimal>, and so is the grave accent (code 96)
Chr(cp) ==
  IF cp >= 32 /\ cp <= 126 THEN Printable[cp - 31]
  ELSE IF cp = 9 THEN "\t"
  ELSE IF cp = 10 THEN "\n"
  ELSE IF cp = 12 THEN "\f"
  ELSE IF cp = 13 THEN "\r"
  ELSE "U+" \o ToString(cp)

AsciiCode ==
  [ c \in Range(Printable) \cup {"\t", "\n", "\f", "\r"} |->
      IF c = "\t" THEN 9
      ELSE IF c = "\n" THEN 10
      ELSE IF c = "\f" THEN 12
      ELSE IF c = "\r" THEN 13
      ELSE 31 + (CHOOSE i \in DOMAIN Printable : Printable[i] = c) ]

IsAscii(c) == c \in DOMAIN AsciiCode

ControlChars == { Chr(k) : k \in 0..31 }

Digits == {"0", "1", "2", "3", "4", "5", "6", "7", "8", "9"}
UpperLetters ==
  {"A", "B", "C", "D", "E", "F", "G", "H", "I", "J", "K", "L", "M",
   "N", "O", "P", "Q", "R", "S", "T", "U", "V", "W", "X", "Y", "Z"}
LowerLetters ==
  {"a", "b", "c", "d", "e", "f", "g", "h", "i", "j", "k", "l", "m",
   "n", "o", "p", "q", "r", "s", "t", "u", "v", "w", "x", "y", "z"}
HexDigits == Digits \cup {"a", "b", "c", "d", "e", "f", "A", "B", "C", "D", "E", "F"}

HexValue(c) ==
  AsciiCode[c] - (IF c \in Digits THEN 48 ELSE IF c \in UpperLetters THEN 55 ELSE 87)

\* String.prototype.trim and the \s class of the regular expressions
WhiteSpaceCodes ==
  {9, 10, 11, 12, 13, 32, 160, 5760, 8232, 8233, 8239, 8287, 12288, 65279} \cup (8192..8202)

WhiteSpace == { Chr(cp) : cp \in WhiteSpaceCodes }

(***************************************************************************)
(* String helpers (methods of String.prototype).                           *)
(***************************************************************************)
RECURSIVE ToStr(_)
\* a character sequence as text
ToStr(s) == IF s = <<>> THEN "" ELSE Head(s) \o ToStr(Tail(s))

RECURSIVE TrimStart(_)
TrimStart(s) ==
  IF s # <<>> /\ Head(s) \in WhiteSpace THEN TrimStart(Tail(s)) ELSE s

RECURSIVE TrimEnd(_)
TrimEnd(s) ==
  IF s # <<>> /\ s[Len(s)] \in WhiteSpace THEN TrimEnd(SubSeq(s, 1, Len(s) - 1)) ELSE s

Trim(s) == TrimEnd(TrimStart(s))

StartsWith(s, p) == Len(s) >= Len(p) /\ SubSeq(s, 1, Len(p)) = p

Includes(s, p) ==
  \E i \in 1..(Len(s) - Len(p) + 1) : SubSeq(s, i, i + Len(p) - 1) = p

RemoveAll(s, cs) == SelectSeq(s, LAMBDA c : c \notin cs)

RECURSIVE ReplaceAll(_, _, _)
\* String.prototype.replace with a global pattern matching the literal p
ReplaceAll(s, p, r) ==
  IF s = <<>> THEN <<>>
  ELSE IF StartsWith(s, p) THEN r \o ReplaceAll(SubSeq(s, Len(p) + 1, Len(s)), p, r)
  ELSE <<Head(s)>> \o ReplaceAll(Tail(s), p, r)

(***************************************************************************)
(* Number values.  A number literal denotes the double nearest to it       *)
(* (ties to the even significand); the model holds a number as the text    *)
(* Number::toString gives for that double, which is what String, template  *)
(* literals and JSON.stringify write (negative zero is written 0, and no   *)
(* operation of the program tells it from zero).  Arithmetic is exact, on  *)
(* decimals of any length: the digits d, most significant first, without   *)
(* leading or trailing zeros, times 10^e.                                  *)
(***************************************************************************)
Dec(d, e) == [d |-> d, e |-> e]

\* the first place of d that holds no zero, Len(d) + 1 when there is none
FirstNonZero(d) ==
  LET places == { i \in DOMAIN d : d[i] # 0 }
  IN IF places = {} THEN Len(d) + 1 ELSE CHOOSE i \in places : \A k \in places : i <= k

Reversed(d) == [ i \in 1..Len(d) |-> d[Len(d) + 1 - i] ]

\* how many zeros d ends with
TrailingZeros(d) == FirstNonZero(Reversed(d)) - 1

\* the decimal of the digits d times 10^e, for d with a non-zero digit
Cut(d, e, first, zeros) == Dec(SubSeq(d, first, Len(d) - zeros), e + zeros)

Normal(d, e) == Cut(d, e, FirstNonZero(d), TrailingZeros(d))

\* the digits of 2 * x.d, by places: a place gives a carry iff it holds 5 or more
DoubledDigits(d) ==
  (IF d[1] >= 5 THEN <<1>> ELSE <<>>)
    \o SubSeq([ i \in 1..Len(d) |->
                  ((2 * d[i]) % 10) + (IF i < Len(d) /\ d[i + 1] >= 5 THEN 1 ELSE 0) ],
               1, Len(d))

DropLastZero(d, e) ==
  IF d[Len(d)] = 0 THEN Dec(SubSeq(d, 1, Len(d) - 1), e + 1) ELSE Dec(d, e)

\* 2 * x
Dbl(x) == DropLastZero(DoubledDigits(x.d), x.e)

\* the digits of d / 2 for d ending in an even digit
HalvedDigits(d) ==
  SubSeq([ i \in 1..Len(d) |-> (d[i] + (IF i > 1 /\ d[i - 1] % 2 = 1 THEN 10 ELSE 0)) \div 2 ],
         1, Len(d))

DropFirstZero(d, e) == IF d[1] = 0 THEN Dec(Tail(d), e) ELSE Dec(d, e)

\* x / 2
Hlv(x) ==
  IF x.d[Len(x.d)] % 2 = 1
  THEN DropFirstZero(HalvedDigits(Append(x.d, 0)), x.e - 1)
  ELSE DropFirstZero(HalvedDigits(x.d), x.e)

RECURSIVE Times2To(_, _)
\* x * 2^j, for j of either sign: by way of y, x times the power of half j
Times2To(x, j) ==
  IF j = 0 THEN x
  ELSE IF j = 1 THEN Dbl(x)
  ELSE IF j = -1 THEN Hlv(x)
  ELSE CHOOSE z \in { Times2To(y, j - j \div 2) : y \in { Times2To(x, j \div 2) } } : TRUE

\* a < b for digit sequences without leading zeros
DigitsLess(a, b) ==
  \/ Len(a) < Len(b)
  \/ /\ Len(a) = Len(b)
     /\ \E i \in DOMAIN a : a[i] < b[i] /\ \A k \in 1..(i - 1) : a[k] = b[k]

\* x < y for decimals: by magnitude, then by digits
Padded(d, n) == [ i \in 1..n |-> IF i <= Len(d) THEN d[i] ELSE 0 ]

DecLessAt(x, y, n) ==
  \/ Len(x.d) + x.e < Len(y.d) + y.e
  \/ /\ Len(x.d) + x.e = Len(y.d) + y.e
     /\ DigitsLess(Padded(x.d, n), Padded(y.d, n))

DecLess(x, y) == DecLessAt(x, y, IF Len(x.d) > Len(y.d) THEN Len(x.d) ELSE Len(y.d))

\* the integer part of x, as digits (empty for a part of zero)
IntPart(x) ==
  IF x.e >= 0 THEN x.d \o [ i \in 1..x.e |-> 0 ]
  ELSE IF Len(x.d) + x.e <= 0 THEN <<>>
  ELSE SubSeq(x.d, 1, Len(x.d) + x.e)

\* the digits of x after the point that x.d holds (x.d has no trailing zero)
FracPart(x) ==
  IF x.e >= 0 THEN <<>>
  ELSE IF Len(x.d) + x.e <= 0 THEN [ i \in 1..(0 - Len(x.d) - x.e) |-> 0 ] \o x.d
  ELSE SubSeq(x.d, Len(x.d) + x.e + 1, Len(x.d))

\* d + 1 for a digit sequence
IncAt(d, k) ==
  IF k = 0 THEN <<1>> \o [ i \in DOMAIN d |-> 0 ]
  ELSE [ i \in DOMAIN d |-> IF i < k THEN d[i] ELSE IF i = k THEN d[i] + 1 ELSE 0 ]

Inc(d) == IncAt(d, Len(d) - TrailingZeros([ i \in DOMAIN d |-> 9 - d[i] ]))

TwoTo52 == << 4, 5, 0, 3, 5, 9, 9, 6, 2, 7, 3, 7, 0, 4, 9, 6 >>
TwoTo53 == << 9, 0, 0, 7, 1, 9, 9, 2, 5, 4, 7, 4, 0, 9, 9, 2 >>

\* the least binary exponent of a double (of the subnormal ones)
MinExponent == -1074
\* the greatest binary exponent of a finite double
MaxExponent == 971

RECURSIVE Scaled(_, _)
\* x = v * 2^j brought to 2^52 <= x < 2^53, or to j = -MinExponent when v is
\* below the normal doubles
Scaled(x, j) ==
  IF DigitsLess(IntPart(x), TwoTo52) /\ j < 0 - MinExponent THEN Scaled(Dbl(x), j + 1)
  ELSE IF ~DigitsLess(IntPart(x), TwoTo53) THEN Scaled(Hlv(x), j - 1)
  ELSE [x |-> x, j |-> j]

\* an estimate of 52 - log2(v), from the count of the digits before the point
AtMost(j, most) == IF j > most THEN most ELSE j

FirstShift(v) == AtMost(52 - ((Len(v.d) + v.e - 1) * 33219) \div 10000, 0 - MinExponent)

\* x rounded to an integer, a tie to the even one
RoundHalfEven(whole, frac) ==
  IF /\ frac # <<>>
     /\ \/ frac[1] > 5
        \/ /\ frac[1] = 5
           /\ (Len(frac) > 1 \/ (whole # <<>> /\ whole[Len(whole)] % 2 = 1))
  THEN Inc(whole) ELSE whole

\* the double m * 2^k of the scaled value; m is empty for zero
Double(m, j) == IF m = TwoTo53 THEN [m |-> TwoTo52, k |-> 1 - j] ELSE [m |-> m, k |-> 0 - j]

Rounded(s) == Double(RoundHalfEven(IntPart(s.x), FracPart(s.x)), s.j)

ShiftedBy(v, j) == Scaled(Times2To(v, j), j)

\* the double nearest to the decimal v
DoubleOf(v) == Rounded(ShiftedBy(v, FirstShift(v)))

\* 10^n - t for the digits t of n places, t ending in a non-zero digit
Complement(t) == [ i \in DOMAIN t |-> IF i < Len(t) THEN 9 - t[i] ELSE 10 - t[i] ]

\* the distance of w to the decimals of n digits below and above it, where
\* w.d has more than n digits: the digits after the n-th and their complement
Below(w, n) == Normal(SubSeq(w.d, n + 1, Len(w.d)), w.e)
Above(w, n) == Normal(Complement(SubSeq(w.d, n + 1, Len(w.d))), w.e)

\* x <= y for distances; with strict, x < y
Within(x, y, strict) == DecLess(x, y) \/ (~strict /\ x = y)

\* the decimal of n digits below w, and the one above it
FloorOf(w, n) == Normal(SubSeq(w.d, 1, n), w.e + Len(w.d) - n)
CeilOf(w, n) == Normal(Inc(SubSeq(w.d, 1, n)), w.e + Len(w.d) - n)

\* which of the decimals of n digits next to w lies within the bounds: the
\* nearer one of two, the one with the even last digit of two equally near
Choice(below, above, low, high, even) ==
  IF low /\ high
  THEN (IF DecLess(below, above) \/ (below = above /\ even) THEN "below" ELSE "above")
  ELSE IF low THEN "below"
  ELSE IF high THEN "above"
  ELSE "neither"

ChoiceOf(below, above, lower, upper, strict, even) ==
  Choice(below, above, Within(below, lower, strict), Within(above, upper, strict), even)

RECURSIVE Shortest(_, _, _, _, _)

Chosen(w, n, lower, upper, strict, choice) ==
  IF choice = "below" THEN FloorOf(w, n)
  ELSE IF choice = "above" THEN CeilOf(w, n)
  ELSE Shortest(w, n + 1, lower, upper, strict)

\* the decimal of the fewest digits, n or more, that lies between w - lower
\* and w + upper (the ends left out with strict), the nearest to w of them
\* and of two equally near the one with the even last digit
Shortest(w, n, lower, upper, strict) ==
  IF n >= Len(w.d) THEN w
  ELSE Chosen(w, n, lower, upper, strict,
              ChoiceOf(Below(w, n), Above(w, n), lower, upper, strict, w.d[n] % 2 = 0))

\* the shortest decimal between f - lower and f + half
ShortestWithin(f, half, lower) ==
  Shortest(Times2To(Normal(f.m, 0), f.k), 1, lower, half, f.m[Len(f.m)] % 2 = 1)

\* the shortest decimal about f, half being half the gap to the next double
ShortestAbout(f, half) ==
  ShortestWithin(f, half, IF f.m = TwoTo52 /\ f.k > MinExponent THEN Hlv(half) ELSE half)

\* the shortest decimal that denotes the double f
ShortestOf(f) == ShortestAbout(f, Times2To(Dec(<<1>>, 0), f.k - 1))

DigitChars(d) == [ i \in DOMAIN d |-> Chr(48 + d[i]) ]

RECURSIVE NatDigits(_)
\* the digits of a natural number
NatDigits(n) == IF n < 10 THEN <<n>> ELSE Append(NatDigits(n \div 10), n % 10)

Zeros(c) == [ i \in 1..c |-> "0" ]

\* the exponent part of a number written with the point after its first digit
ExponentPart(p) ==
  (IF p < 0 THEN <<"e", "-">> ELSE <<"e", "+">>)
    \o DigitChars(NatDigits(IF p < 0 THEN 0 - p ELSE p))

\* the digits s, k of them, written with the point after the n-th
Written(s, k, n) ==
  IF k <= n /\ n <= 21 THEN s \o Zeros(n - k)
  ELSE IF 0 < n /\ n <= 21 THEN SubSeq(s, 1, n) \o <<".">> \o SubSeq(s, n + 1, k)
  ELSE IF -6 < n /\ n <= 0 THEN <<"0", ".">> \o Zeros(0 - n) \o s
  ELSE IF k = 1 THEN s \o ExponentPart(n - 1)
  ELSE <<s[1], ".">> \o Tail(s) \o ExponentPart(n - 1)

\* Number::toString of the positive finite number denoted by the decimal x
DecToString(x) == Written(DigitChars(x.d), Len(x.d), Len(x.d) + x.e)

Infinity == << "I", "n", "f", "i", "n", "i", "t", "y" >>

\* Number::toString of the double f
DoubleToString(f) ==
  IF f.m = <<>> \/ \A i \in DOMAIN f.m : f.m[i] = 0 THEN <<"0">>
  ELSE IF f.k > MaxExponent THEN Infinity
  ELSE DecToString(ShortestOf(f))

RECURSIVE NatOf(_)
\* the natural number of a few digits
NatOf(d) == IF d = <<>> THEN 0 ELSE 10 * NatOf(SubSeq(d, 1, Len(d) - 1)) + d[Len(d)]

Capped(significant, negative) ==
  IF negative
  THEN 0 - (IF Len(significant) > 5 THEN 100000 ELSE NatOf(significant))
  ELSE (IF Len(significant) > 5 THEN 100000 ELSE NatOf(significant))

\* the exponent a literal writes after e or E, cut off at 100000
ExponentOf(digits, negative) ==
  Capped(SubSeq(digits, FirstNonZero(digits), Len(digits)), negative)

\* the first position of s that holds an element of S, or Len(s) + 1
IndexIn(s, S) ==
  IF \A i \in DOMAIN s : s[i] \notin S THEN Len(s) + 1
  ELSE CHOOSE i \in DOMAIN s : s[i] \in S /\ \A k \in 1..(i - 1) : s[k] \notin S

DigitsOf(s) == [ i \in DOMAIN s |-> HexValue(s[i]) ]

\* the digits of a mantissa with its point at the given place, and how
\* many of them follow the point
MantissaAt(mantissa, point) ==
  [digits |-> DigitsOf(SubSeq(mantissa, 1, point - 1)
                         \o SubSeq(mantissa, point + 1, Len(mantissa))),
   fraction |-> IF point > Len(mantissa) THEN 0 ELSE Len(mantissa) - point]

\* the exponent written by the text after e or E
Exponent(text) ==
  IF text = <<>> THEN 0
  ELSE ExponentOf(DigitsOf(IF Head(text) \in {"+", "-"} THEN Tail(text) ELSE text),
                  Head(text) = "-")

Parts(mantissa, exponent) == [digits |-> mantissa.digits, e |-> exponent - mantissa.fraction]

PartsAt(lex, mark) ==
  Parts(MantissaAt(SubSeq(lex, 1, mark - 1), IndexIn(SubSeq(lex, 1, mark - 1), {"."})),
        Exponent(SubSeq(lex, mark + 1, Len(lex))))

\* the digits and the exponent of a number literal without its sign
LiteralParts(lex) == PartsAt(lex, IndexIn(lex, {"e", "E"}))

\* the text of the double nearest to the positive decimal v
TextOf(v) ==
  IF Len(v.d) + v.e > 310 THEN Infinity
  ELSE IF Len(v.d) + v.e < -330 THEN <<"0">>
  ELSE DoubleToString(DoubleOf(v))

\* the text of the positive number a literal without sign denotes
MagnitudeToString(parts) ==
  IF \A i \in DOMAIN parts.digits : parts.digits[i] = 0 THEN <<"0">>
  ELSE TextOf(Normal(parts.digits, parts.e))

Negated(negative, text) == IF negative /\ text # <<"0">> THEN <<"-">> \o text ELSE text

\* the number a literal of the JSON grammar denotes
NumberOf(lex) ==
  Negated(lex[1] = "-",
          MagnitudeToString(LiteralParts(IF lex[1] = "-" THEN Tail(lex) ELSE lex)))

(***************************************************************************)
(* JSON values.                                                            *)
(***************************************************************************)
Undefined == [t |-> "undefined"]
JNull == [t |-> "null"]
JStr(s) == [t |-> "string", s |-> s]
\* a number, lex being the text Number::toString gives for it
JNum(lex) == [t |-> "number", lex |-> lex]
JBool(b) == [t |-> "boolean", b |-> b]
JArr(items) == [t |-> "array", items |-> items]
JObj(fields) == [t |-> "object", fields |-> fields]

\* ToBoolean
Truthy(v) ==
  CASE v.t = "undefined" -> FALSE
    [] v.t = "null" -> FALSE
    [] v.t = "boolean" -> v.b
    [] v.t = "number" -> v.lex # <<"0">>
    [] v.t = "string" -> v.s # <<>>
    [] OTHER -> TRUE

\* typeof v is object
TypeofObject(v) == v.t \in {"null", "array", "object"}

\* v.key for a value that is neither null nor undefined
GetProp(v, key) ==
  IF v.t = "object" /\ key \in DOMAIN v.fields THEN v.fields[key] ELSE Undefined

\* key in v, for v an object or an array
HasProp(v, key) == v.t = "object" /\ key \in DOMAIN v.fields

(***************************************************************************)
(* JSON.parse: a recursive-descent parser of the JSON grammar.             *)
(***************************************************************************)
JsonWs == {" ", "\t", "\n", "\r"}

ParseFail == [ok |-> FALSE, v |-> Undefined, i |-> 0]
ParseOk(v, i) == [ok |-> TRUE, v |-> v, i |-> i]

RECURSIVE SkipWs(_, _)
SkipWs(s, i) == IF i <= Len(s) /\ s[i] \in JsonWs THEN SkipWs(s, i + 1) ELSE i

RECURSIVE DigitsEnd(_, _)
\* the first position at or after i that holds no digit
DigitsEnd(s, i) == IF i <= Len(s) /\ s[i] \in Digits THEN DigitsEnd(s, i + 1) ELSE i

At(s, i, c) == i <= Len(s) /\ s[i] = c

NumberLiteral(s, i, i4) == ParseOk(JNum(NumberOf(SubSeq(s, i, i4 - 1))), i4)

\* the number that starts at i, its fraction ending before i3 and the digits
\* of its exponent, when an exponent follows, starting at e0
NumberWithExponent(s, i, i3, hasExp, e0) ==
  IF hasExp /\ DigitsEnd(s, e0) = e0 THEN ParseFail
  ELSE NumberLiteral(s, i, IF hasExp THEN DigitsEnd(s, e0) ELSE i3)

NumberWithFraction(s, i, i3) ==
  NumberWithExponent(s, i, i3, i3 <= Len(s) /\ s[i3] \in {"e", "E"},
                     IF i3 + 1 <= Len(s) /\ s[i3 + 1] \in {"+", "-"} THEN i3 + 2 ELSE i3 + 1)

\* the number that starts at i, its integer part being from i1 to before i2
NumberWithInteger(s, i, i1, i2) ==
  IF i2 = i1 THEN ParseFail
  ELSE IF At(s, i2, ".") /\ DigitsEnd(s, i2 + 1) = i2 + 1 THEN ParseFail
  ELSE NumberWithFraction(s, i, IF At(s, i2, ".") THEN DigitsEnd(s, i2 + 1) ELSE i2)

NumberAfterSign(s, i, i1) ==
  NumberWithInteger(s, i, i1, IF At(s, i1, "0") THEN i1 + 1 ELSE DigitsEnd(s, i1))

ParseNumber(s, i) == NumberAfterSign(s, i, IF At(s, i, "-") THEN i + 1 ELSE i)

RECURSIVE ScanString(_, _, _)
\* the characters of a string literal from position j on, after acc
ScanString(s, j, acc) ==
  IF j > Len(s) THEN ParseFail
  ELSE IF s[j] = "\"" THEN ParseOk(JStr(acc), j + 1)
  ELSE IF s[j] = "\\" THEN
    IF j + 1 > Len(s) THEN ParseFail
    ELSE LET e == s[j + 1] IN
      IF e \in {"\"", "\\", "/"} THEN ScanString(s, j + 2, Append(acc, e))
      ELSE IF e = "b" THEN ScanString(s, j + 2, Append(acc, Chr(8)))
      ELSE IF e = "f" THEN ScanString(s, j + 2, Append(acc, "\f"))
      ELSE IF e = "n" THEN ScanString(s, j + 2, Append(acc, "\n"))
      ELSE IF e = "r" THEN ScanString(s, j + 2, Append(acc, "\r"))
      ELSE IF e = "t" THEN ScanString(s, j + 2, Append(acc, "\t"))
      ELSE IF e = "u" THEN
        IF j + 5 <= Len(s) /\ \A k \in (j + 2)..(j + 5) : s[k] \in HexDigits
        THEN ScanString(s, j + 6,
               Append(acc, Chr(4096 * HexValue(s[j + 2]) + 256 * HexValue(s[j + 3])
                               + 16 * HexValue(s[j + 4]) + HexValue(s[j + 5]))))
        ELSE ParseFail
      ELSE ParseFail
  ELSE IF s[j] \in ControlChars THEN ParseFail
  ELSE ScanString(s, j + 1, Append(acc, s[j]))

ParseString(s, i) == IF At(s, i, "\"") THEN ScanString(s, i + 1, <<>>) ELSE ParseFail

ParseWord(s, i, w, v) ==
  IF i + Len(w) - 1 <= Len(s) /\ SubSeq(s, i, i + Len(w) - 1) = w
  THEN ParseOk(v, i + Len(w)) ELSE ParseFail

\* an object with key set to v (a repeated key keeps the last value)
SetField(fields, key, v) ==
  [ k \in DOMAIN fields \cup {key} |-> IF k = key THEN v ELSE fields[k] ]

NoFields == [ k \in {} |-> Undefined ]

RECURSIVE ParseValue(_, _)
RECURSIVE ParseElements(_, _, _)
RECURSIVE ParseMembers(_, _, _)

\* the rest of an array after the elements items, from position j on
ElementsAfter(s, items, j) ==
  IF At(s, j, ",") THEN ParseElements(s, SkipWs(s, j + 1), items)
  ELSE IF At(s, j, "]") THEN ParseOk(JArr(items), j + 1)
  ELSE ParseFail

ElementParsed(s, acc, r) ==
  IF ~r.ok THEN ParseFail ELSE ElementsAfter(s, Append(acc, r.v), SkipWs(s, r.i))

\* the elements of an array from position i (the start of an element) on
ParseElements(s, i, acc) == ElementParsed(s, acc, ParseValue(s, i))

\* the rest of an object after the members fields, from position j on
MembersAfter(s, fields, j) ==
  IF At(s, j, ",") THEN ParseMembers(s, SkipWs(s, j + 1), fields)
  ELSE IF At(s, j, "}") THEN ParseOk(JObj(fields), j + 1)
  ELSE ParseFail

MemberParsed(s, acc, key, r) ==
  IF ~r.ok THEN ParseFail ELSE MembersAfter(s, SetField(acc, key, r.v), SkipWs(s, r.i))

\* the member of the given key, the colon being due at position c
MemberAt(s, acc, key, c) ==
  IF ~At(s, c, ":") THEN ParseFail
  ELSE MemberParsed(s, acc, key, ParseValue(s, SkipWs(s, c + 1)))

KeyParsed(s, acc, k) ==
  IF ~k.ok THEN ParseFail ELSE MemberAt(s, acc, k.v.s, SkipWs(s, k.i))

\* the members of an object from position i (the start of a key) on
ParseMembers(s, i, acc) == KeyParsed(s, acc, ParseString(s, i))

\* the object that opens before position j
ObjectAt(s, j) ==
  IF At(s, j, "}") THEN ParseOk(JObj(NoFields), j + 1) ELSE ParseMembers(s, j, NoFields)

\* the array that opens before position j
ArrayAt(s, j) ==
  IF At(s, j, "]") THEN ParseOk(JArr(<<>>), j + 1) ELSE ParseElements(s, j, <<>>)

ParseValue(s, i) ==
  IF i > Len(s) THEN ParseFail
  ELSE IF s[i] = "{" THEN ObjectAt(s, SkipWs(s, i + 1))
  ELSE IF s[i] = "[" THEN ArrayAt(s, SkipWs(s, i + 1))
  ELSE IF s[i] = "\"" THEN ParseString(s, i)
  ELSE IF s[i] = "t" THEN ParseWord(s, i, <<"t", "r", "u", "e">>, JBool(TRUE))
  ELSE IF s[i] = "f" THEN ParseWord(s, i, <<"f", "a", "l", "s", "e">>, JBool(FALSE))
  ELSE IF s[i] = "n" THEN ParseWord(s, i, <<"n", "u", "l", "l">>, JNull)
  ELSE IF s[i] = "-" \/ s[i] \in Digits THEN ParseNumber(s, i)
  ELSE ParseFail

Whole(s, r) ==
  IF r.ok /\ SkipWs(s, r.i) = Len(s) + 1 THEN [ok |-> TRUE, v |-> r.v]
  ELSE [ok |-> FALSE, v |-> Undefined]

\* JSON.parse(text): ok is FALSE where it throws SyntaxError
JSONParse(s) == Whole(s, ParseValue(s, SkipWs(s, 1)))

(***************************************************************************)
(* UTF-8: the code point of a byte sequence, as decodeURIComponent and     *)
(* Buffer.toString decode it.                                              *)
(***************************************************************************)
\* how many bytes the sequence of a lead byte has; 0 for a byte that leads none
Utf8Width(b) ==
  IF b < 128 THEN 1
  ELSE IF b >= 194 /\ b <= 223 THEN 2
  ELSE IF b >= 224 /\ b <= 239 THEN 3
  ELSE IF b >= 240 /\ b <= 244 THEN 4
  ELSE 0

\* the bytes allowed at place k (2..4) of the sequence led by b
Utf8Allowed(b, k) ==
  IF k > 2 THEN 128..191
  ELSE IF b = 224 THEN 160..191
  ELSE IF b = 237 THEN 128..159
  ELSE IF b = 240 THEN 144..191
  ELSE IF b = 244 THEN 128..143
  ELSE 128..191

RECURSIVE Utf8Good(_, _, _)
\* how many of the bytes from place k on continue the sequence starting at bytes[i]
Utf8Good(bytes, i, k) ==
  IF k > Utf8Width(bytes[i]) THEN 0
  ELSE IF i + k - 1 <= Len(bytes) /\ bytes[i + k - 1] \in Utf8Allowed(bytes[i], k)
       THEN 1 + Utf8Good(bytes, i, k + 1)
  ELSE 0

Utf8CodePoint(bytes, i) ==
  LET b == bytes[i]
      w == Utf8Width(b)
      c(k) == bytes[i + k - 1] % 64
  IN IF w = 1 THEN b
     ELSE IF w = 2 THEN (b % 32) * 64 + c(2)
     ELSE IF w = 3 THEN (b % 16) * 4096 + c(2) * 64 + c(3)
     ELSE (b % 8) * 262144 + c(2) * 4096 + c(3) * 64 + c(4)

\* the UTF-16 code units of a code point: one, or a surrogate pair
CodeUnits(cp) ==
  IF cp < 65536 THEN <<Chr(cp)>>
  ELSE <<Chr(55296 + (cp - 65536) \div 1024), Chr(56320 + ((cp - 65536) % 1024))>>

\* the first position at or after i that holds an element of S, or Len(s) + 1
FirstIn(s, i, S) ==
  LET hits == { j \in i..Len(s) : s[j] \in S }
  IN IF hits = {} THEN Len(s) + 1 ELSE CHOOSE j \in hits : \A k \in hits : j <= k

RECURSIVE Utf8Decode(_, _)
\* Buffer.toString('utf8') of the bytes from i on: a run of ASCII bytes is
\* taken as it stands, an ill-formed sequence becomes one U+FFFD per maximal
\* subpart
Utf8Decode(bytes, i) ==
  IF i > Len(bytes) THEN <<>>
  ELSE LET j == FirstIn(bytes, i, 128..255)
           run == [ k \in 1..(j - i) |-> Chr(bytes[i + k - 1]) ]
           w == Utf8Width(bytes[j])
           g == Utf8Good(bytes, j, 2)
       IN IF j > Len(bytes) THEN run
          ELSE IF w >= 1 /\ g = w - 1
          THEN run \o CodeUnits(Utf8CodePoint(bytes, j)) \o Utf8Decode(bytes, j + w)
          ELSE run \o <<Chr(65533)>> \o Utf8Decode(bytes, j + 1 + g)

(***************************************************************************)
(* decodeURIComponent.                                                     *)
(***************************************************************************)
\* the byte of the escape %XX at position i, or -1 when there is none
PctByte(s, i) ==
  IF i + 2 <= Len(s) /\ s[i] = "%" /\ s[i + 1] \in HexDigits /\ s[i + 2] \in HexDigits
  THEN 16 * HexValue(s[i + 1]) + HexValue(s[i + 2])
  ELSE -1

RECURSIVE PctDecodeFrom(_, _, _)
\* the decoding of s from position i on, after acc: the characters up to the
\* next % are taken as they stand
PctDecodeFrom(s, i, acc) ==
  LET j == FirstIn(s, i, {"%"})
      run == acc \o SubSeq(s, i, j - 1)
      b == PctByte(s, j)
      w == IF b < 0 THEN 0 ELSE Utf8Width(b)
      octets == [ k \in 1..w |-> PctByte(s, j + 3 * (k - 1)) ]
  IN IF j > Len(s) THEN [ok |-> TRUE, s |-> run]
     ELSE IF w = 0 THEN [ok |-> FALSE, s |-> <<>>]
     ELSE IF \E k \in 2..w : octets[k] < 0 THEN [ok |-> FALSE, s |-> <<>>]
     ELSE IF Utf8Good(octets, 1, 2) # w - 1 THEN [ok |-> FALSE, s |-> <<>>]
     ELSE PctDecodeFrom(s, j + 3 * w, run \o CodeUnits(Utf8CodePoint(octets, 1)))

\* a place in the second half of s where the escape of an ASCII character
\* starts, 0 when there is none: no escape sequence goes across it
SplitPoint(s) ==
  LET places == { j \in (Len(s) \div 2 + 1)..Len(s) : PctByte(s, j) >= 0 /\ PctByte(s, j) < 128 }
  IN IF places = {} THEN 0 ELSE CHOOSE j \in places : \A k \in places : j <= k

RECURSIVE DecodeURIComponent(_)
\* decodeURIComponent(s): ok is FALSE where it throws URIError; a long text
\* is decoded in two halves
DecodeURIComponent(s) ==
  IF Len(s) > 32 /\ SplitPoint(s) > 1
  THEN LET left == DecodeURIComponent(SubSeq(s, 1, SplitPoint(s) - 1))
           right == DecodeURIComponent(SubSeq(s, SplitPoint(s), Len(s)))
       IN IF left.ok /\ right.ok THEN [ok |-> TRUE, s |-> left.s \o right.s]
          ELSE [ok |-> FALSE, s |-> <<>>]
  ELSE PctDecodeFrom(s, 1, <<>>)

(***************************************************************************)
(* Base64 (Buffer.from(text, 'base64')).                                   *)
(***************************************************************************)
Base64Alphabet ==
  << "A", "B", "C", "D", "E", "F", "G", "H", "I", "J", "K", "L", "M", "N", "O", "P",
     "Q", "R", "S", "T", "U", "V", "W", "X", "Y", "Z", "a", "b", "c", "d", "e", "f",
     "g", "h", "i", "j", "k", "l", "m", "n", "o", "p", "q", "r", "s", "t", "u", "v",
     "w", "x", "y", "z", "0", "1", "2", "3", "4", "5", "6", "7", "8", "9", "+", "/" >>

Base64Chars == Range(Base64Alphabet)

Base64Value == [ c \in Base64Chars |-> (CHOOSE i \in DOMAIN Base64Alphabet : Base64Alphabet[i] = c) - 1 ]

RECURSIVE Base64Groups(_)
\* the bytes of a sequence of sextets: four sextets give three bytes, a
\* trailing three give two, a trailing two give one, a lone one gives none
Base64Groups(q) ==
  IF Len(q) >= 4
  THEN << q[1] * 4 + q[2] \div 16, (q[2] % 16) * 16 + q[3] \div 4, (q[3] % 4) * 64 + q[4] >>
       \o Base64Groups(SubSeq(q, 5, Len(q)))
  ELSE IF Len(q) = 3 THEN << q[1] * 4 + q[2] \div 16, (q[2] % 16) * 16 + q[3] \div 4 >>
  ELSE IF Len(q) = 2 THEN << q[1] * 4 + q[2] \div 16 >>
  ELSE <<>>

\* the characters before the first =
UpToPadding(s) == SubSeq(s, 1, FirstIn(s, 1, {"="}) - 1)

\* Buffer.from(s, 'base64'): characters outside the alphabet are skipped,
\* decoding ends at the padding; it never throws
Base64Decode(s) ==
  LET body == SelectSeq(UpToPadding(s), LAMBDA c : c \in Base64Chars)
  IN Base64Groups([ i \in DOMAIN body |-> Base64Value[body[i]] ])

(***************************************************************************)
(* The candidate lists.                                                    *)
(***************************************************************************)
SERVICE_ACCOUNT_JSON_ENV_NAMES ==
  << "GCP_SERVICE_ACCOUNT_KEY", "GCP_SA_KEY", "GCP_SERVICE_ACCOUNT_JSON",
     "GCP_SERVICE_ACCOUNT", "GCP_SERVICE_KEY", "GCP_CREDENTIALS", "GOOGLE_CREDENTIALS",
     "GOOGLE_APPLICATION_CREDENTIALS_JSON", "GOOGLE_APPLICATION_CREDENTIALS_BASE64",
     "GOOGLE_APPLICATION_CREDENTIALS_B64", "SERVICE_ACCOUNT_JSON",
     "BIGQUERY_SERVICE_ACCOUNT_KEY", "BIGQUERY_CREDENTIALS", "BQ_SERVICE_ACCOUNT_KEY" >>

SERVICE_ACCOUNT_EMAIL_ENV_NAMES ==
  << "GCP_SERVICE_ACCOUNT_EMAIL", "GCP_CLIENT_EMAIL", "GOOGLE_CLIENT_EMAIL",
     "BIGQUERY_CLIENT_EMAIL", "BQ_CLIENT_EMAIL", "SERVICE_ACCOUNT_EMAIL",
     "GOOGLE_SERVICE_ACCOUNT_EMAIL", "GCP_SERVICE_ACCOUNT_USER" >>

SERVICE_ACCOUNT_KEY_ENV_NAMES ==
  << "GCP_SERVICE_ACCOUNT_KEY_RAW", "GCP_PRIVATE_KEY", "GOOGLE_PRIVATE_KEY",
     "BIGQUERY_PRIVATE_KEY", "BQ_PRIVATE_KEY", "SERVICE_ACCOUNT_PRIVATE_KEY",
     "GOOGLE_SERVICE_ACCOUNT_PRIVATE_KEY", "GCP_SERVICE_ACCOUNT_PRIVATE_KEY" >>

PROJECT_ID_ENV_NAMES ==
  << "GCP_PROJECT", "GOOGLE_CLOUD_PROJECT", "GOOGLE_PROJECT_ID", "GCP_PROJECT_ID",
     "BIGQUERY_PROJECT_ID", "BQ_PROJECT_ID", "GOOGLE_PROJECT", "GCLOUD_PROJECT" >>

GOOGLE_APPLICATION_CREDENTIALS_NAMES == << "GOOGLE_APPLICATION_CREDENTIALS" >>

\* the candidate names that start with another candidate name, with the rest
NameRest ==
  { <<"GCP_SERVICE_ACCOUNT_KEY", "GCP_SERVICE_ACCOUNT_KEY_RAW", <<"_", "R", "A", "W">>>>,
    <<"GCP_SERVICE_ACCOUNT", "GCP_SERVICE_ACCOUNT_KEY", <<"_", "K", "E", "Y">>>>,
    <<"GCP_SERVICE_ACCOUNT", "GCP_SERVICE_ACCOUNT_JSON", <<"_", "J", "S", "O", "N">>>>,
    <<"GCP_SERVICE_ACCOUNT", "GCP_SERVICE_ACCOUNT_EMAIL", <<"_", "E", "M", "A", "I", "L">>>>,
    <<"GCP_SERVICE_ACCOUNT", "GCP_SERVICE_ACCOUNT_USER", <<"_", "U", "S", "E", "R">>>>,
    <<"GCP_SERVICE_ACCOUNT", "GCP_SERVICE_ACCOUNT_KEY_RAW", <<"_", "K", "E", "Y", "_", "R", "A", "W">>>>,
    <<"GCP_SERVICE_ACCOUNT", "GCP_SERVICE_ACCOUNT_PRIVATE_KEY", <<"_", "P", "R", "I", "V", "A", "T", "E", "_", "K", "E", "Y">>>>,
    <<"GCP_PROJECT", "GCP_PROJECT_ID", <<"_", "I", "D">>>>,
    <<"GOOGLE_PROJECT", "GOOGLE_PROJECT_ID", <<"_", "I", "D">>>>,
    <<"GOOGLE_APPLICATION_CREDENTIALS", "GOOGLE_APPLICATION_CREDENTIALS_JSON", <<"_", "J", "S", "O", "N">>>>,
    <<"GOOGLE_APPLICATION_CREDENTIALS", "GOOGLE_APPLICATION_CREDENTIALS_BASE64", <<"_", "B", "A", "S", "E", "6", "4">>>>,
    <<"GOOGLE_APPLICATION_CREDENTIALS", "GOOGLE_APPLICATION_CREDENTIALS_B64", <<"_", "B", "6", "4">>>> }

(***************************************************************************)
(* The environment (process.env): a function from the variables that are   *)
(* set to their values.  A variable is a candidate name followed by a      *)
(* suffix, empty for the variable of that very name.                       *)
(***************************************************************************)
Var(name) == [base |-> name, suffix |-> <<>>]
SplitVar(name, suffix) == [base |-> name, suffix |-> suffix]

\* process.env[name]; the empty string stands for undefined too, the code
\* tests the value for truthiness only
EnvGet(e, name) == IF Var(name) \in DOMAIN e THEN e[Var(name)] ELSE <<>>

\* envName.slice(baseName.length) where envName.startsWith(baseName)
SuffixAfter(v, baseName) ==
  IF v.base = baseName THEN <<v.suffix>>
  ELSE IF \E r \in NameRest : r[1] = baseName /\ r[2] = v.base
       THEN << (CHOOSE r \in NameRest : r[1] = baseName /\ r[2] = v.base)[3] \o v.suffix >>
  ELSE <<>>

RECURSIVE StripSeparators(_)
\* replace(/^[\s_-]+/, '')
StripSeparators(s) ==
  IF s # <<>> /\ Head(s) \in WhiteSpace \cup {"_", "-"} THEN StripSeparators(Tail(s)) ELSE s

\* trimmed.toUpperCase().startsWith('PART'): the characters whose upper case
\* begins with P, A, R or T are these letters in either case, U+1E97 (T and
\* U+0308) and U+1E9A (A and U+02BE, which no R follows)
UpperStartsWithPART(trimmed) ==
  /\ Len(trimmed) >= 4
  /\ trimmed[1] \in {"p", "P"}
  /\ trimmed[2] \in {"a", "A"}
  /\ trimmed[3] \in {"r", "R"}
  /\ trimmed[4] \in {"t", "T", Chr(7831)}

AllDigits(s) == s # <<>> /\ \A i \in DOMAIN s : s[i] \in Digits

RECURSIVE ParseInt(_)
\* parseInt(s, 10) of a digit sequence
ParseInt(s) == IF s = <<>> THEN 0 ELSE 10 * ParseInt(SubSeq(s, 1, Len(s) - 1)) + HexValue(s[Len(s)])

\* the index string of a suffix, empty when the suffix names no part
IndexString(suffix) ==
  LET trimmed == StripSeparators(suffix)
      remainder == StripSeparators(SubSeq(trimmed, 5, Len(trimmed)))
  IN IF UpperStartsWithPART(trimmed)
     THEN (IF AllDigits(remainder) THEN remainder ELSE <<>>)
     ELSE IF AllDigits(trimmed) THEN trimmed
     ELSE <<>>

\* the parts left in the order Object.entries lists them
SortParts_EnvOrder(parts) == parts

RECURSIVE SortParts(_)
\* Array.prototype.sort by index (stable)
SortParts(parts) ==
  IF parts = <<>> THEN <<>>
  ELSE LET least == CHOOSE i \in DOMAIN parts :
                      /\ \A j \in DOMAIN parts : parts[i].index <= parts[j].index
                      /\ \A j \in 1..(i - 1) : parts[j].index # parts[i].index
       IN <<parts[least]>> \o SortParts(SubSeq(parts, 1, least - 1) \o SubSeq(parts, least + 1, Len(parts)))

RECURSIVE JoinValues(_)
JoinValues(parts) == IF parts = <<>> THEN <<>> ELSE Head(parts).value \o JoinValues(Tail(parts))

(***************************************************************************)
(* Environment accessor.                                                   *)
(***************************************************************************)
Min(a, b) == IF a <= b THEN a ELSE b

Leading(names) == SubSeq(names, 1, Min(MaxNames, Len(names)))

VarsOf(names) == [ i \in DOMAIN names |-> Var(names[i]) ]

\* the variables an environment of the model may set, in the order
\* Object.entries(process.env) lists them
EnvOrder ==
  VarsOf(Leading(SERVICE_ACCOUNT_JSON_ENV_NAMES))
    \o << SplitVar("GCP_SERVICE_ACCOUNT_KEY", <<"_", "1", "0">>),
          SplitVar("GCP_SERVICE_ACCOUNT_KEY", <<"_", "P", "A", "R", "T", "_", "2">>) >>
    \o VarsOf(GOOGLE_APPLICATION_CREDENTIALS_NAMES)
    \o VarsOf(Leading(SERVICE_ACCOUNT_EMAIL_ENV_NAMES))
    \o << SplitVar("GCP_CLIENT_EMAIL", <<"-", "p", "a", "r", "t", "1">>) >>
    \o VarsOf(Leading(SERVICE_ACCOUNT_KEY_ENV_NAMES))
    \o VarsOf(Leading(PROJECT_ID_ENV_NAMES))
    \o << Var("DASHBOARD_API_KEY"), Var("K_SERVICE") >>

\* combineSplitEnv(baseName); the empty string stands for undefined
combineSplitEnv(e, baseName) ==
  LET idx(v) == IF SuffixAfter(v, baseName) = <<>> THEN <<>>
                ELSE IndexString(SuffixAfter(v, baseName)[1])
      listed == SelectSeq(EnvOrder, LAMBDA v : v \in DOMAIN e /\ e[v] # <<>> /\ idx(v) # <<>>)
      parts == [ i \in DOMAIN listed |->
                   [index |-> ParseInt(idx(listed[i])), value |-> e[listed[i]]] ]
  IN JoinValues(SortParts(parts))

NotFound == [found |-> FALSE, name |-> "", value |-> <<>>]
Found(name, value) == [found |-> TRUE, name |-> name, value |-> value]

\* the last place instead of the first
Greatest(S) == CHOOSE i \in S : \A j \in S : i >= j

Least(S) == CHOOSE i \in S : \A j \in S : i <= j

\* the places of the names whose variable holds a non-blank value
DirectHits(e, names) == { i \in DOMAIN names : Trim(EnvGet(e, names[i])) # <<>> }

\* the places of the names whose numbered parts combine to a non-blank value
SplitHits(e, names) == { i \in DOMAIN names : Trim(combineSplitEnv(e, names[i])) # <<>> }

\* the lookup that tries the numbered parts of each name right after the
\* name itself
getFirstSetEnvWithName_NameByName(e, names) ==
  IF DirectHits(e, names) \cup SplitHits(e, names) = {} THEN NotFound
  ELSE IF Least(DirectHits(e, names) \cup SplitHits(e, names)) \in DirectHits(e, names)
  THEN Found(names[Least(DirectHits(e, names))],
             Trim(EnvGet(e, names[Least(DirectHits(e, names))])))
  ELSE Found(names[Least(SplitHits(e, names))] \o " (split parts)",
             Trim(combineSplitEnv(e, names[Least(SplitHits(e, names))])))

getFirstSetEnvWithName(e, names) ==
  IF DirectHits(e, names) # {}
  THEN Found(names[Least(DirectHits(e, names))],
             Trim(EnvGet(e, names[Least(DirectHits(e, names))])))
  ELSE IF SplitHits(e, names) # {}
  THEN Found(names[Least(SplitHits(e, names))] \o " (split parts)",
             Trim(combineSplitEnv(e, names[Least(SplitHits(e, names))])))
  ELSE NotFound

\* getFirstSetEnv(names); the empty string stands for undefined
getFirstSetEnv(e, names) == getFirstSetEnvWithName(e, names).value

(***************************************************************************)
(* Component credential assembler.                                         *)
(***************************************************************************)
\* the empty string stands for undefined
\* String.prototype.replace with a pattern that is not global
ReplaceFirst(s, p, r) ==
  IF ~Includes(s, p) THEN s
  ELSE LET i == CHOOSE i \in 1..(Len(s) - Len(p) + 1) :
                  /\ SubSeq(s, i, i + Len(p) - 1) = p
                  /\ \A j \in 1..(i - 1) : SubSeq(s, j, j + Len(p) - 1) # p
       IN SubSeq(s, 1, i - 1) \o r \o SubSeq(s, i + Len(p), Len(s))

\* the replacement without the g flag
normalisePrivateKey_FirstOnly(value) ==
  ReplaceFirst(Trim(value), <<"\\", "n">>, <<"\n">>)

normalisePrivateKey(value) ==
  LET trimmed == Trim(value)
  IN IF Includes(trimmed, <<"\\", "n">>) THEN ReplaceAll(trimmed, <<"\\", "n">>, <<"\n">>)
     ELSE trimmed

K_type == <<"t", "y", "p", "e">>
K_project_id == <<"p", "r", "o", "j", "e", "c", "t", "_", "i", "d">>
K_private_key_id == <<"p", "r", "i", "v", "a", "t", "e", "_", "k", "e", "y", "_", "i", "d">>
K_private_key == <<"p", "r", "i", "v", "a", "t", "e", "_", "k", "e", "y">>
K_client_email == <<"c", "l", "i", "e", "n", "t", "_", "e", "m", "a", "i", "l">>
K_toString == <<"t", "o", "S", "t", "r", "i", "n", "g">>
SERVICE_ACCOUNT == <<"s", "e", "r", "v", "i", "c", "e", "_", "a", "c", "c", "o", "u", "n", "t">>

\* the credential object of the three looked-up values
CredentialsFromParts(clientEmail, privateKey, projectId) ==
  IF clientEmail # <<>> /\ privateKey # <<>>
  THEN JObj(IF projectId # <<>>
            THEN SetField(SetField(SetField(SetField(NoFields,
                   K_client_email, JStr(clientEmail)),
                   K_private_key, JStr(privateKey)),
                   K_type, JStr(SERVICE_ACCOUNT)),
                   K_project_id, JStr(projectId))
            ELSE SetField(SetField(SetField(NoFields,
                   K_client_email, JStr(clientEmail)),
                   K_private_key, JStr(privateKey)),
                   K_type, JStr(SERVICE_ACCOUNT)))
  ELSE Undefined

buildCredentialsFromEnvironmentParts(e) ==
  CredentialsFromParts(getFirstSetEnv(e, SERVICE_ACCOUNT_EMAIL_ENV_NAMES),
                       normalisePrivateKey(getFirstSetEnv(e, SERVICE_ACCOUNT_KEY_ENV_NAMES)),
                       getFirstSetEnv(e, PROJECT_ID_ENV_NAMES))

(***************************************************************************)
(* Format detector and decoder chain.                                      *)
(***************************************************************************)
RECURSIVE TrailingPadding(_)
\* the length of the match of /=*$/
TrailingPadding(s) ==
  IF s # <<>> /\ s[Len(s)] = "=" THEN 1 + TrailingPadding(SubSeq(s, 1, Len(s) - 1)) ELSE 0

\* the pattern without its padding part, /^[A-Za-z0-9+\/]+$/
MatchesBase64Pattern_NoPadding(s) ==
  s # <<>> /\ \A i \in DOMAIN s : s[i] \in Base64Chars

\* /^[A-Za-z0-9+\/]+=*$/.test(s)
MatchesBase64Pattern(s) ==
  LET body == SubSeq(s, 1, Len(s) - TrailingPadding(s))
  IN body # <<>> /\ \A i \in DOMAIN body : body[i] \in Base64Chars

\* the confidence score, in hundredths
detectBase64Likelihood(value) ==
  LET cleaned == RemoveAll(Trim(value), WhiteSpace)
      remainder == Len(cleaned) % 4
  IN IF StartsWith(cleaned, <<"{">>) \/ StartsWith(cleaned, <<"[">>) THEN 0
     ELSE IF ~MatchesBase64Pattern(cleaned) THEN 0
     ELSE IF Len(cleaned) < 100 THEN 30
     ELSE IF TrailingPadding(cleaned) > 2 THEN 20
     ELSE IF remainder = 0 THEN 90
     ELSE IF remainder <= 2 THEN 70
     ELSE 50

Success(credentials, projectId, source) ==
  [success |-> TRUE, credentials |-> credentials, projectId |-> projectId, source |-> source]

Failure(type, message, details, troubleshooting) ==
  [success |-> FALSE,
   error |-> [type |-> type, message |-> message, details |-> details,
              troubleshooting |-> troubleshooting]]

\* const parsed = JSON.parse(text); ... projectId: parsed.project_id
\* of the outcome r of JSON.parse: ok is FALSE where either throws, the
\* SyntaxError of JSON.parse or the TypeError of reading a property of null
WithProjectId(r) ==
  IF ~r.ok THEN [ok |-> FALSE, v |-> Undefined, projectId |-> Undefined, error |-> "SyntaxError"]
  ELSE IF r.v.t = "null"
  THEN [ok |-> FALSE, v |-> Undefined, projectId |-> Undefined, error |-> "TypeError"]
  ELSE [ok |-> TRUE, v |-> r.v, projectId |-> GetProp(r.v, K_project_id), error |-> ""]

ParseWithProjectId(text) == WithProjectId(JSONParse(text))

\* the removal of line breaks from a value that does not start with a brace
JoinLines(trimmed) ==
  IF Includes(trimmed, <<"\n">>) /\ ~StartsWith(trimmed, <<"{">>)
  THEN RemoveAll(trimmed, {"\n"}) ELSE trimmed

LooksUrlEncoded(s) ==
  Includes(s, <<"%", "2", "2">>) \/ Includes(s, <<"%", "7", "B">>) \/ Includes(s, <<"%", "7", "D">>)

\* try { cleanedValue = decodeURIComponent(cleanedValue) } catch { }
DecodedOr(urlDecoded, original) == IF urlDecoded.ok THEN urlDecoded.s ELSE original

UrlDecodeIfEncoded(joined) ==
  IF LooksUrlEncoded(joined) THEN DecodedOr(DecodeURIComponent(joined), joined) ELSE joined

\* the value after the clean-up of embedded line breaks and percent-escapes
CleanedValue(value) == UrlDecodeIfEncoded(JoinLines(Trim(value)))

AdditionalGuidance(decoded) ==
  IF StartsWith(decoded, <<"d", "a", "t", "a", ":">>)
       \/ Includes(decoded, <<"b", "a", "s", "e", "6", "4", ",">>)
  THEN << "The decoded content appears to contain a data URL. Use only the service account JSON, not a data URL." >>
  ELSE IF Includes(decoded, <<"\\", "n">>) /\ ~Includes(decoded, <<"\n">>)
  THEN << "The decoded content contains escaped newlines (\\n). These should be actual newlines in the JSON." >>
  ELSE IF Trim(decoded) = <<>>
  THEN << "The decoded content is empty. The base64 string may be invalid or incomplete." >>
  ELSE <<>>

\* the outcome of the base64 path, fromBase64 being the parse of decoded
Base64Outcome(fromBase64, decoded, source) ==
  IF fromBase64.ok
  THEN Success(fromBase64.v, fromBase64.projectId, source \o " (base64-encoded JSON)")
  ELSE Failure("invalid_json",
         source \o " was successfully base64 decoded but does not contain valid JSON",
         "The base64-decoded content could not be parsed as JSON. JSON error: "
           \o fromBase64.error \o ". Decoded length: " \o ToString(Len(decoded))
           \o " characters.",
         << "Ensure you are encoding valid JSON content when creating the base64 value",
            "Example: 'cat service-account.json | base64 | tr -d \"\\n\"' should produce valid base64 encoding",
            "Verify your service-account.json file is valid JSON before encoding: 'cat service-account.json | jq .'",
            "Test the encoding/decoding locally: 'echo \"$GCP_SERVICE_ACCOUNT_KEY\" | base64 -d | jq .'" >>
           \o AdditionalGuidance(decoded)
           \o << "After correcting the value, redeploy the application" >>)

\* Buffer.from(cleanedValue, 'base64').toString('utf8'), then the parse
TryBase64(decoded, source) == Base64Outcome(ParseWithProjectId(decoded), decoded, source)

\* the failure when neither raw JSON nor base64 worked
NeitherWorked(cleanedValue, source) ==
  IF StartsWith(cleanedValue, <<"{">>) \/ StartsWith(cleanedValue, <<"[">>)
  THEN Failure("invalid_json",
         source \o " is not valid JSON or base64 encoded JSON",
         source \o " appears to be JSON but contains syntax errors.",
         << "The value looks like JSON but has syntax errors",
            "Ensure the entire JSON is copied, including opening { and closing }",
            "Check for missing commas, quotes, or brackets",
            "Validate your JSON: 'cat service-account.json | jq .'",
            "Ensure no characters were corrupted during copy/paste",
            "After correcting the value, redeploy the application" >>)
  ELSE Failure("invalid_base64",
         source \o " is not valid JSON or base64 encoded JSON",
         "Could not parse " \o source \o " as JSON or base64-encoded JSON.",
         << "Option 1 (Raw JSON - Recommended): Set " \o source \o " to the entire contents of your service account key file",
            "Option 2 (Base64): Run 'cat service-account.json | base64 | tr -d \"\\n\"' and set " \o source \o " to the output",
            "Ensure there are no extra spaces, line breaks, or special characters in the environment variable",
            "Verify the JSON is valid before encoding: 'cat service-account.json | jq .'",
            "After correcting the value, redeploy the application" >>)

\* the decode chain on the cleaned value, raw being its direct parse
DecodeChain(raw, cleanedValue, source) ==
  IF raw.ok THEN Success(raw.v, raw.projectId, source \o " (raw JSON)")
  ELSE IF detectBase64Likelihood(cleanedValue) > 30
  THEN TryBase64(Utf8Decode(Base64Decode(cleanedValue), 1), source)
  ELSE NeitherWorked(cleanedValue, source)

ParseCleaned(cleanedValue, source) ==
  DecodeChain(ParseWithProjectId(cleanedValue), cleanedValue, source)

parseServiceAccountValue(value, source) ==
  IF Trim(value) = <<>>
  THEN Failure("missing",
         source \o " is not set or is empty",
         "The environment variable " \o source \o " must be set to your service account credentials.",
         << "Set " \o source \o " to the contents of your service account key JSON file (raw JSON)",
            "Or, set " \o source \o " to base64-encoded JSON: run 'cat service-account.json | base64'",
            "After setting the variable, redeploy the application" >>)
  ELSE ParseCleaned(CleanedValue(value), source)

(***************************************************************************)
(* Structural validator.                                                   *)
(***************************************************************************)
RECURSIVE JoinWith(_, _)
\* Array.prototype.join of texts
JoinWith(texts, sep) ==
  IF texts = <<>> THEN ""
  ELSE IF Len(texts) = 1 THEN texts[1]
  ELSE texts[1] \o sep \o JoinWith(Tail(texts), sep)

\* an exception: the message, the code the BigQuery client gives it, and the
\* first line of the stack
Raised(name, message, code) == [message |-> message, code |-> code, stack |-> name \o ": " \o message]

\* the TypeError of ToPrimitive on an object whose own toString is no
\* function (Object.prototype.valueOf gives the object back)
NotPrimitive == Raised("TypeError", "Cannot convert object to primitive value", 0)

Text(s) == [ok |-> TRUE, s |-> s]
NoText == [ok |-> FALSE, s |-> ""]

RECURSIVE JsToString(_)
\* ToString(v), of a template literal and of String(v): ok is FALSE where it
\* throws NotPrimitive.  An object parsed from JSON has the toString of
\* Object.prototype unless a key of its own hides it, by a value that is no
\* function; an array gives join(','), with nothing for null and undefined
JsToString(v) ==
  CASE v.t = "string" -> Text(ToStr(v.s))
    [] v.t = "number" -> Text(ToStr(v.lex))
    [] v.t = "boolean" -> Text(IF v.b THEN "true" ELSE "false")
    [] v.t = "null" -> Text("null")
    [] v.t = "undefined" -> Text("undefined")
    [] v.t = "object" -> IF HasProp(v, K_toString) THEN NoText ELSE Text("[object Object]")
    [] v.t = "array" ->
         LET items == [ i \in DOMAIN v.items |->
                          IF v.items[i].t \in {"null", "undefined"} THEN Text("")
                          ELSE JsToString(v.items[i]) ]
         IN IF \E i \in DOMAIN items : ~items[i].ok THEN NoText
            ELSE Text(JoinWith([ i \in DOMAIN items |-> items[i].s ], ","))

requiredFields == << K_type, K_project_id, K_private_key_id, K_private_key, K_client_email >>

\* only the first of the required fields that are not in the object
missingFields_FirstOnly(credentials) ==
  IF \A field \in Range(requiredFields) : HasProp(credentials, field) THEN <<>>
  ELSE << Head(SelectSeq(requiredFields, LAMBDA field : ~HasProp(credentials, field))) >>

\* requiredFields.filter((field) => !(field in credentials))
missingFields(credentials) ==
  SelectSeq(requiredFields, LAMBDA field : ~HasProp(credentials, field))

\* the call that ends with an exception instead of a result
Throws(error) == [success |-> FALSE, threw |-> error]

HasThrown(r) == "threw" \in DOMAIN r

validateServiceAccountStructure(credentials, source) ==
  LET type == GetProp(credentials, K_type)
  IN IF ~Truthy(credentials) \/ ~TypeofObject(credentials)
     THEN Failure("invalid_structure",
            source \o " does not contain a valid object",
            "The parsed JSON is not an object structure",
            << "Ensure you are using the service account key JSON file from Google Cloud Console",
               "The file should be a JSON object with fields like type, project_id, private_key, etc.",
               "Download a fresh service account key from Google Cloud Console if needed" >>)
     ELSE IF type # JStr(SERVICE_ACCOUNT) /\ Truthy(type) /\ ~JsToString(type).ok
     THEN Throws(NotPrimitive)
     ELSE IF type # JStr(SERVICE_ACCOUNT)
     THEN Failure("invalid_structure",
            source \o " does not contain a service account credential",
            "Expected \"type\": \"service_account\" but got \"type\": \""
              \o (IF Truthy(type) THEN JsToString(type).s ELSE "missing") \o "\"",
            << "Ensure you are using a service account key JSON (not other credential types)",
               "Download the key from: Google Cloud Console > IAM & Admin > Service Accounts > Keys",
               "Create a new key if needed (JSON format)" >>)
     ELSE IF missingFields(credentials) # <<>>
     THEN Failure("missing_fields",
            source \o " is missing required service account fields",
            "Missing fields: "
              \o JoinWith([ i \in DOMAIN missingFields(credentials) |->
                            ToStr(missingFields(credentials)[i]) ], ", "),
            << "Ensure you are using the complete service account key JSON file",
               "The file should contain: type, project_id, private_key_id, private_key, client_email",
               "Download a fresh service account key from Google Cloud Console if the file is incomplete" >>)
     ELSE Success(credentials, GetProp(credentials, K_project_id), source)

(***************************************************************************)
(* Resolver.                                                               *)
(***************************************************************************)
MissingFailure ==
  Failure("missing",
    "No Google Cloud service account credentials configured",
    "No supported credential environment variables found",
    << "Option 1: Set GCP_SERVICE_ACCOUNT_KEY with your service account JSON (raw or base64 encoded)",
       "Option 2: Set GOOGLE_CREDENTIALS or GOOGLE_APPLICATION_CREDENTIALS with your service account JSON",
       "Option 3: Set individual variables: GCP_CLIENT_EMAIL + GCP_PRIVATE_KEY (with \\n for newlines)",
       "After setting credentials, redeploy the application",
       "Verify configuration at: /api/config-check" >>)

\* the block the resolver runs on the parse result of a blob source: decided
\* says whether it returns the validation result (the parse succeeded,
\* giving a truthy value); otherwise result is the parse result
ValidateParsed(parseResult) ==
  IF parseResult.success /\ Truthy(parseResult.credentials)
  THEN [decided |-> TRUE,
        result |-> validateServiceAccountStructure(parseResult.credentials, parseResult.source)]
  ELSE [decided |-> FALSE, result |-> parseResult]

ParseAndValidate(lookup) == ValidateParsed(parseServiceAccountValue(lookup.value, lookup.name))

Outcome(r, s) == [result |-> r, steps |-> s]

\* the component path without the test that the assembler built something
FromParts_Unguarded(credentialsFromParts, before) ==
  Outcome(validateServiceAccountStructure(credentialsFromParts,
            "credential parts (GCP_CLIENT_EMAIL + GCP_PRIVATE_KEY)"),
          before \o <<"parts">>)

\* the component path, after the steps before
FromParts(credentialsFromParts, before) ==
  IF credentialsFromParts # Undefined
  THEN Outcome(validateServiceAccountStructure(credentialsFromParts,
                 "credential parts (GCP_CLIENT_EMAIL + GCP_PRIVATE_KEY)"),
               before \o <<"parts">>)
  ELSE Outcome(MissingFailure, before \o <<"parts">>)

\* GOOGLE_APPLICATION_CREDENTIALS: a decided value returns, any other goes on
AfterGoogleCredentials(block, e) ==
  IF block.decided THEN Outcome(block.result, <<"google_application_credentials">>)
  ELSE FromParts(buildCredentialsFromEnvironmentParts(e), <<"google_application_credentials">>)

FromGoogleCredentials(googleCredentialsResult, e) ==
  IF googleCredentialsResult.found
  THEN AfterGoogleCredentials(ParseAndValidate(googleCredentialsResult), e)
  ELSE FromParts(buildCredentialsFromEnvironmentParts(e), <<>>)

\* the named blob variables: a found value always returns
FromServiceAccountKey(serviceAccountKeyResult, e) ==
  IF serviceAccountKeyResult.found
  THEN Outcome(ParseAndValidate(serviceAccountKeyResult).result, <<"blob">>)
  ELSE FromGoogleCredentials(
         getFirstSetEnvWithName(e, GOOGLE_APPLICATION_CREDENTIALS_NAMES), e)

\* resolveGCPCredentials(): the result, with the sources it went through
resolveGCPCredentials(e) ==
  FromServiceAccountKey(getFirstSetEnvWithName(e, SERVICE_ACCOUNT_JSON_ENV_NAMES), e)

(***************************************************************************)
(* HTTP route handlers.  A request carries the headers, the body text and  *)
(* the query parameters the handlers read; a header or parameter that is   *)
(* absent is null.  A handler runs until it answers or until it awaits a   *)
(* call (request.json, table.insert, bigquery.query) and goes on when that *)
(* call has ended.  Each stretch gives the response, if it answered, else  *)
(* the call it awaits; the effects it had outside the process in their     *)
(* order; and how the call of resolveGCPCredentials ended, if it made it.  *)
(* The effects are the clients built, the queries and inserts issued and   *)
(* the log of the request body; the console lines that only report on the  *)
(* progress of a handler are left out.                                     *)
(***************************************************************************)
\* process.env[name]
EnvRaw(e, name) == IF Var(name) \in DOMAIN e THEN JStr(e[Var(name)]) ELSE Undefined

\* NextResponse.json(body, { status })
Json(status, body) == [status |-> status, body |-> body]

\* the result before resolveGCPCredentials has been called
NotCalled == [success |-> FALSE, pending |-> TRUE]

NoResolution == [result |-> NotCalled, steps |-> <<>>]

\* no response yet
NoResponse == [status |-> 0]

\* the handler answered
Handled(answer, done, returned) ==
  [response |-> answer, effects |-> done, resolution |-> returned, awaits |-> ""]

\* the handler awaits a call
Awaits(call, done, returned) ==
  [response |-> NoResponse, effects |-> done, resolution |-> returned, awaits |-> call]

\* the handler from its start to its answer: the stretch up to the await,
\* then the stretch after it
Then(first, rest) ==
  IF first.awaits = "" THEN first ELSE [rest EXCEPT !.effects = first.effects \o @]

\* an exception no catch of the handler takes: the framework answers 500
\* with a page of its own
Uncaught(error) == [status |-> 500, uncaught |-> error]

\* authHeader?.startsWith('Bearer ') ? authHeader.slice(7) : authHeader || undefined
BearerToken(authHeader) ==
  IF authHeader.t = "string" /\ StartsWith(authHeader.s, <<"B", "e", "a", "r", "e", "r", " ">>)
  THEN JStr(SubSeq(authHeader.s, 8, Len(authHeader.s)))
  ELSE IF Truthy(authHeader) THEN authHeader ELSE Undefined

\* request.headers.get('x-api-key') ?? undefined
OrUndefined(v) == IF v.t = "null" THEN Undefined ELSE v

\* the API-key check of optimization-status and optimization-results
KeyAccepted(apiKey, request) ==
  Truthy(apiKey) =>
    (BearerToken(request.authorization) = apiKey \/ OrUndefined(request.xApiKey) = apiKey)

\* the API-key check of optimization-error
BearerKeyAccepted(apiKey, request) ==
  /\ Truthy(request.authorization)
  /\ StartsWith(request.authorization.s, <<"B", "e", "a", "r", "e", "r", " ">>)
  /\ JStr(SubSeq(request.authorization.s, 8, Len(request.authorization.s))) = apiKey

Unauthorized == Json(401, [error |-> "Unauthorized"])
InternalServerError == Json(500, [error |-> "Internal server error"])
Received == Json(200, [success |-> TRUE, received |-> TRUE])

\* the rest of a handler that logs the body: request.json() throws on a
\* body that is not JSON
LogBody(body, what) ==
  IF ~body.ok THEN Handled(InternalServerError, <<>>, NoResolution)
  ELSE Handled(Received, << [op |-> what, body |-> body.v] >>, NoResolution)

\* the handlers with the API-key check of optimization-status, up to
\* await request.json()
KeyChecked(e, request) ==
  IF ~KeyAccepted(EnvRaw(e, "DASHBOARD_API_KEY"), request)
  THEN Handled(Unauthorized, <<>>, NoResolution)
  ELSE Awaits("request.json", <<>>, NoResolution)

\* optimization-error up to await request.json()
BearerKeyChecked(e, request) ==
  IF ~BearerKeyAccepted(EnvRaw(e, "DASHBOARD_API_KEY"), request)
  THEN Handled(Unauthorized, <<>>, NoResolution)
  ELSE Awaits("request.json", <<>>, NoResolution)

\* POST /api/optimization-status
optimizationStatusPOST(e, request) ==
  Then(KeyChecked(e, request), LogBody(JSONParse(request.body), "console.log"))

\* POST /api/optimization-error
optimizationErrorPOST(e, request) ==
  Then(BearerKeyChecked(e, request), LogBody(JSONParse(request.body), "console.error"))

DEFAULT_PROJECT_ID == <<"a", "m", "a", "z", "o", "n", "-", "p", "p", "c", "-", "4", "7", "4", "9", "0", "2">>

\* the project id of the credential before the configured one
ChooseProjectId_CredentialFirst(explicit, credentialResult) ==
  IF credentialResult.success /\ Truthy(credentialResult.projectId)
  THEN credentialResult.projectId
  ELSE IF explicit # <<>> THEN JStr(explicit)
  ELSE JStr(DEFAULT_PROJECT_ID)

\* the project id of the BigQuery client: let projectId =
\* getFirstSetEnv(PROJECT_ID_ENV_NAMES); if (!projectId &&
\* credentialResult.projectId) ...; if (!projectId) projectId = DEFAULT_PROJECT_ID
ChooseProjectId(explicit, credentialResult) ==
  IF explicit # <<>> THEN JStr(explicit)
  ELSE IF credentialResult.success /\ Truthy(credentialResult.projectId)
  THEN credentialResult.projectId
  ELSE JStr(DEFAULT_PROJECT_ID)

\* new BigQuery({ projectId, ...(credentials && { credentials }) })
NewBigQuery(projectId, credentials) ==
  [op |-> "new BigQuery", projectId |-> projectId,
   credentials |-> IF Truthy(credentials) THEN credentials ELSE Undefined]

ClientFrom(explicit, returned) ==
  [client |-> NewBigQuery(ChooseProjectId(explicit, returned.result),
                          IF returned.result.success THEN returned.result.credentials
                          ELSE Undefined),
   resolution |-> returned]

\* getBigQueryClient() of optimization-results, with what the resolver
\* returned to it
getBigQueryClient(e) ==
  ClientFrom(getFirstSetEnv(e, PROJECT_ID_ENV_NAMES), resolveGCPCredentials(e))

\* process.env[name] || fallback
EnvOr(e, name, fallback) ==
  IF Truthy(EnvRaw(e, name)) THEN EnvRaw(e, name).s ELSE fallback

K_run_id == <<"r", "u", "n", "_", "i", "d">>
K_status == <<"s", "t", "a", "t", "u", "s">>
K_timestamp == <<"t", "i", "m", "e", "s", "t", "a", "m", "p">>
resultsRequiredFields == << K_run_id, K_status, K_timestamp >>

\* requiredFields.filter(field => !body[field])
MissingOf(body, fields) == SelectSeq(fields, LAMBDA field : ~Truthy(GetProp(body, field)))

FieldNames(fields) == [ i \in DOMAIN fields |-> ToStr(fields[i]) ]

\* console.log('Optimization results received:', { run_id, status, duration, summary })
LogResults(body) ==
  [op |-> "console.log",
   body |-> [run_id |-> GetProp(body, K_run_id), status |-> GetProp(body, K_status),
             duration |-> GetProp(body, Chars("duration_seconds")),
             summary |-> GetProp(body, Chars("summary"))]]

\* Array.isArray(v) ? v.map(e => String(e)) : [], each text with its ok
Strings(v) ==
  IF v.t = "array" THEN [ i \in DOMAIN v.items |-> JsToString(v.items[i]) ] ELSE <<>>

AllOk(texts) == \A i \in DOMAIN texts : texts[i].ok

\* the row of the insert, cut to the fields the handler requires and the
\* two lists it turns into texts
ResultsRow(body) ==
  [timestamp |-> GetProp(body, K_timestamp), run_id |-> GetProp(body, K_run_id),
   status |-> GetProp(body, K_status),
   errors |-> [ i \in DOMAIN Strings(GetProp(body, Chars("errors"))) |->
                  Strings(GetProp(body, Chars("errors")))[i].s ],
   warnings |-> [ i \in DOMAIN Strings(GetProp(body, Chars("warnings"))) |->
                    Strings(GetProp(body, Chars("warnings")))[i].s ]]

Insert(e, body) ==
  [op |-> "insert", dataset |-> ToStr(EnvOr(e, "BQ_DATASET_ID", Chars("amazon_ppc"))),
   table |-> "optimization_results", row |-> ResultsRow(body)]

ResultsReceived(body) ==
  Json(200, [success |-> TRUE, received |-> TRUE, run_id |-> GetProp(body, K_run_id)])

\* the insert that throws reaches the outer catch of the handler
InsertEnded_ErrorFails(body, returned, insertOutcome) ==
  Handled(IF insertOutcome = "throws" THEN InternalServerError ELSE ResultsReceived(body),
          <<>>, returned)

\* the handler after await insert([row]): how the insert ended does not
\* change the response
InsertEnded(body, returned, insertOutcome) ==
  Handled(ResultsReceived(body), <<>>, returned)

\* the try block that stores the results, up to await insert([row]): an
\* exception of getBigQueryClient() or of String(e) is caught, and the
\* handler answers as after the insert
StoreResults(e, body, built) ==
  IF HasThrown(built.resolution.result)
  THEN Handled(ResultsReceived(body), << LogResults(body) >>, built.resolution)
  ELSE IF ~AllOk(Strings(GetProp(body, Chars("errors"))))
            \/ ~AllOk(Strings(GetProp(body, Chars("warnings"))))
  THEN Handled(ResultsReceived(body), << LogResults(body), built.client >>, built.resolution)
  ELSE Awaits("insert", << LogResults(body), built.client, Insert(e, body) >>, built.resolution)

\* POST /api/optimization-results from the end of await request.json() on,
\* body being its outcome and built that of getBigQueryClient(): reading a
\* property of null throws
ResultsAccepted(e, body, built) ==
  IF ~body.ok \/ body.v.t = "null" THEN Handled(InternalServerError, <<>>, NoResolution)
  ELSE IF MissingOf(body.v, resultsRequiredFields) # <<>>
  THEN Handled(Json(400, [error |-> "Invalid payload",
                          message |-> "Missing required fields: "
                            \o JoinWith(FieldNames(MissingOf(body.v, resultsRequiredFields)), ", ")]),
               << LogResults(body.v) >>, NoResolution)
  ELSE StoreResults(e, body.v, built)

ResultsPOST(e, request, insertOutcome, built) ==
  Then(KeyChecked(e, request),
       Then(ResultsAccepted(e, JSONParse(request.body), built),
            InsertEnded(JSONParse(request.body).v, built.resolution, insertOutcome)))

\* POST /api/optimization-results
optimizationResultsPOST(e, request, insertOutcome) ==
  ResultsPOST(e, request, insertOutcome, getBigQueryClient(e))

(***************************************************************************)
(* GET /api/bigquery-data.  The pictographs at the head of some lines of   *)
(* the troubleshooting lists are left out of the texts.                    *)
(***************************************************************************)
ToLower(c) == IF c \in UpperLetters THEN Chr(AsciiCode[c] + 32) ELSE c

\* String.prototype.toLowerCase
ToLowerCase(text) == ToStr([ i \in 1..Len(text) |-> ToLower(SubSeq(text, i, i)) ])

MissingCredentialsBody ==
  [error |-> "Missing Google Cloud credentials",
   message |-> "Could not load Google Cloud credentials for BigQuery.",
   details |-> "Provide service account credentials via the GCP_SERVICE_ACCOUNT_KEY environment variable (preferred) or GOOGLE_APPLICATION_CREDENTIALS as a JSON string.",
   documentation |-> "See amazon_ppc_dashboard/nextjs_space/README_DASHBOARD_SETUP.md for deployment steps.",
   troubleshooting |->
     << "Step 1: Get Service Account Credentials",
        "   - Go to Google Cloud Console -> IAM & Admin -> Service Accounts",
        "   - Select your service account or create a new one",
        "   - Click \"Keys\" -> \"Add Key\" -> \"Create New Key\" (JSON format)",
        "   - Download the JSON key file",
        "",
        "Step 2: Set Environment Variable",
        "   Option A - Raw JSON (Recommended):",
        "     - Copy the entire contents of the JSON file",
        "     - Set GCP_SERVICE_ACCOUNT_KEY to the JSON string (all on one line)",
        "   Option B - Base64 Encoded:",
        "     - Run: cat service-account.json | base64 | tr -d \"\\n\"",
        "     - Set GCP_SERVICE_ACCOUNT_KEY to the base64 output",
        "",
        "Step 3: Redeploy Dashboard",
        "   - Save the environment variable in your deployment platform",
        "   - Redeploy the dashboard application",
        "   - Wait for deployment to complete",
        "",
        "Step 4: Verify Configuration",
        "   - Visit /api/config-check to verify credentials are loaded",
        "   - Visit /api/credentials-debug for detailed diagnostics",
        "   - Refresh this page to load BigQuery data" >>,
   quickLinks |->
     [configCheck |-> "/api/config-check",
      credentialsDebug |-> "/api/credentials-debug",
      setupGuide |-> "https://github.com/natureswaysoil/Amazom-PPC/blob/main/amazon_ppc_dashboard/nextjs_space/README_DASHBOARD_SETUP.md"]]

GCP_RUNTIME_ENV_NAMES ==
  << "K_SERVICE", "FUNCTION_TARGET", "GAE_SERVICE", "GCP_PROJECT", "GOOGLE_CLOUD_PROJECT" >>

\* process.env.K_SERVICE || ... || process.env.GOOGLE_CLOUD_PROJECT
runningInGCP(e) == \E i \in DOMAIN GCP_RUNTIME_ENV_NAMES : Truthy(EnvRaw(e, GCP_RUNTIME_ENV_NAMES[i]))

\* the handler answers before it builds a client
FailsFast(e, credentialResult) ==
  /\ ~credentialResult.success
  /\ credentialResult.error.type = "missing"
  /\ ~runningInGCP(e)

credentialSourceOf(credentialResult) ==
  IF ~credentialResult.success THEN "Application Default Credentials (fallback)"
  ELSE IF credentialResult.source # "" THEN credentialResult.source
  ELSE "explicit credentials"

RECURSIVE DigitsPrefix(_, _)
\* the longest head of s made of digits of the radix
DigitsPrefix(s, radix) ==
  IF s # <<>> /\ Head(s) \in HexDigits /\ HexValue(Head(s)) < radix
  THEN <<Head(s)>> \o DigitsPrefix(Tail(s), radix)
  ELSE <<>>

RECURSIVE ValueIn(_, _)
ValueIn(digits, radix) ==
  IF digits = <<>> THEN 0
  ELSE radix * ValueIn(SubSeq(digits, 1, Len(digits) - 1), radix) + HexValue(digits[Len(digits)])

NaN == [nan |-> TRUE, n |-> 0]
Number(n) == [nan |-> FALSE, n |-> n]

\* parseInt(text) with no radix: leading white space, a sign, 0x for
\* hexadecimal, then the digits up to the first character that is none
JsParseInt(text) ==
  LET unsigned == IF TrimStart(text) # <<>> /\ Head(TrimStart(text)) \in {"+", "-"}
                  THEN Tail(TrimStart(text)) ELSE TrimStart(text)
      sign == IF TrimStart(text) # <<>> /\ Head(TrimStart(text)) = "-" THEN -1 ELSE 1
      hex == Len(unsigned) >= 2 /\ unsigned[1] = "0" /\ unsigned[2] \in {"x", "X"}
      radix == IF hex THEN 16 ELSE 10
      digits == DigitsPrefix(IF hex THEN SubSeq(unsigned, 3, Len(unsigned)) ELSE unsigned, radix)
  IN IF digits = <<>> THEN NaN ELSE Number(sign * ValueIn(digits, radix))

\* searchParams.get(name) || fallback
ParamOr(param, fallback) == IF Truthy(param) THEN param.s ELSE fallback

\* let n = parseInt(...); if (isNaN(n) || n < 1) n = fallback; else if (n > most) n = most
Clamped(parsed, fallback, most) ==
  IF parsed.nan \/ parsed.n < 1 THEN fallback
  ELSE IF parsed.n > most THEN most
  ELSE parsed.n

limitOf(request) == Clamped(JsParseInt(ParamOr(request.limit, <<"1", "0">>)), 10, 100)
daysOf(request) == Clamped(JsParseInt(ParamOr(request.days, <<"7">>)), 7, 365)
tableOf(request) == ToStr(ParamOr(request.table, Chars("optimization_results")))

validTables == << "optimization_results", "campaign_details", "summary" >>

InvalidTable ==
  Json(400, [error |-> "Invalid table parameter",
             message |-> "Table must be one of: " \o JoinWith(validTables, ", ")])

\* bigquery.query({ query, location, params })
Query(e, table, projectId, limit, days) ==
  [op |-> "query",
   from |-> JsToString(projectId).s \o "." \o ToStr(EnvOr(e, "BQ_DATASET_ID", Chars("amazon_ppc_data")))
              \o "." \o (IF table = "campaign_details" THEN "campaign_details" ELSE "optimization_results"),
   select |-> table,
   location |-> ToStr(EnvOr(e, "BQ_LOCATION", Chars("us-east4"))),
   params |-> IF table = "summary" THEN [days |-> days] ELSE [days |-> days, limit |-> limit]]

jsonFields == << Chars("campaigns"), Chars("top_performers"), Chars("features"), Chars("config_snapshot") >>

DefaultOf(field) ==
  IF field \in { Chars("campaigns"), Chars("top_performers") } THEN JArr(<<>>) ELSE JObj(NoFields)

\* the value the post-processing leaves in a JSON field of a row
ProcessedField(value, field) ==
  IF ~Truthy(value) THEN DefaultOf(field)
  ELSE IF value.t # "string" THEN value
  ELSE IF JSONParse(value.s).ok THEN JSONParse(value.s).v
  ELSE DefaultOf(field)

RECURSIVE ProcessedFields(_, _)
ProcessedFields(fields, names) ==
  IF names = <<>> THEN fields
  ELSE ProcessedFields(SetField(fields, Head(names),
                                ProcessedField(GetProp(JObj(fields), Head(names)), Head(names))),
                       Tail(names))

\* console.warn(`Failed to parse ${field} for row ${processed.run_id}:`, e)
\* in the catch of JSON.parse throws for a run_id that has no text
ProcessingThrows(table, rows) ==
  /\ table = "optimization_results"
  /\ \E i \in DOMAIN rows : \E k \in DOMAIN jsonFields :
       /\ GetProp(rows[i], jsonFields[k]).t = "string"
       /\ Truthy(GetProp(rows[i], jsonFields[k]))
       /\ ~JSONParse(GetProp(rows[i], jsonFields[k]).s).ok
       /\ ~JsToString(GetProp(rows[i], K_run_id)).ok

\* rows.map(...) for optimization_results, the rows as they are otherwise
ProcessedRows(table, rows) ==
  IF table # "optimization_results" THEN rows
  ELSE [ i \in DOMAIN rows |-> JObj(ProcessedFields(rows[i].fields, jsonFields)) ]

DataFound(e, table, projectId, credentialSource, rows) ==
  Json(200, [success |-> TRUE,
             data |-> ProcessedRows(table, rows),
             metadata |-> [projectId |-> projectId,
                           datasetId |-> ToStr(EnvOr(e, "BQ_DATASET_ID", Chars("amazon_ppc_data"))),
                           table |-> table,
                           rowCount |-> Len(rows),
                           credentialSource |-> credentialSource]])

IsPermissionError(error) ==
  /\ error.message # ""
  /\ \/ Includes(error.message, "bigquery.jobs.create")
     \/ Includes(error.message, "bigquery.tables.get")
     \/ Includes(error.message, "Access Denied")
     \/ Includes(error.message, "does not have bigquery")
     \/ error.code \in {403, 7}

IsCredentialError(error) ==
  /\ error.message # ""
  /\ \/ Includes(error.message, "Could not load the default credentials")
     \/ Includes(error.message, "Unable to detect a Project Id")
     \/ Includes(error.message, "GOOGLE_APPLICATION_CREDENTIALS")
     \/ Includes(error.message, "Could not load credentials")
     \/ Includes(error.message, "ADC was not found")
     \/ Includes(error.message, "Could not automatically determine credentials")
     \/ Includes(error.message, "Unable to authenticate")
     \/ /\ Includes(ToLowerCase(error.message), "credentials")
        /\ \/ Includes(ToLowerCase(error.message), "load")
           \/ Includes(ToLowerCase(error.message), "missing")
           \/ Includes(ToLowerCase(error.message), "not found")

\* the project id the permission help names
HelpProjectId(e) ==
  IF getFirstSetEnv(e, PROJECT_ID_ENV_NAMES) # <<>>
  THEN ToStr(getFirstSetEnv(e, PROJECT_ID_ENV_NAMES)) ELSE "amazon-ppc-474902"

AccessDeniedBody(error, projectId) ==
  [error |-> "Access Denied",
   message |-> "The service account does not have sufficient BigQuery permissions",
   details |-> error.message,
   troubleshooting |->
     << "The service account needs these BigQuery IAM roles:",
        "  - roles/bigquery.dataViewer (or roles/bigquery.dataEditor) - to read/write data",
        "  - roles/bigquery.jobUser - to create and run query jobs",
        "",
        "To grant the required permissions, run these commands in Google Cloud Shell:",
        "",
        "# Get the service account email from your credentials",
        "SERVICE_ACCOUNT_EMAIL=$(echo \"$GCP_SERVICE_ACCOUNT_KEY\" | jq -r .client_email)",
        "",
        "# Grant BigQuery Data Viewer role",
        "gcloud projects add-iam-policy-binding " \o projectId \o " \\",
        "  --member=\"serviceAccount:$SERVICE_ACCOUNT_EMAIL\" \\",
        "  --role=\"roles/bigquery.dataViewer\"",
        "",
        "# Grant BigQuery Job User role (required to run queries)",
        "gcloud projects add-iam-policy-binding " \o projectId \o " \\",
        "  --member=\"serviceAccount:$SERVICE_ACCOUNT_EMAIL\" \\",
        "  --role=\"roles/bigquery.jobUser\"",
        "",
        "Alternatively, you can grant these roles in the Google Cloud Console:",
        "  1. Go to https://console.cloud.google.com/iam-admin/iam?project=" \o projectId,
        "  2. Find your service account in the list",
        "  3. Click \"Edit principal\" (pencil icon)",
        "  4. Add the roles: BigQuery Data Viewer + BigQuery Job User",
        "  5. Click \"Save\"",
        "",
        "After granting permissions, refresh this page to try again." >>,
   documentation |-> "See BIGQUERY_DATASET_FIX.md and ACCESS_GUIDE.md for more details."]

\* the catch block of the handler
QueryFailed(e, error) ==
  IF error.message # "" /\ Includes(error.message, "Not found")
  THEN Json(404, [error |-> "Dataset or table not found",
                  message |-> "Please run setup-bigquery.sh to create the BigQuery dataset and tables",
                  details |-> error.message])
  ELSE IF IsPermissionError(error) THEN Json(403, AccessDeniedBody(error, HelpProjectId(e)))
  ELSE IF IsCredentialError(error) THEN Json(500, MissingCredentialsBody)
  ELSE Json(500, [error |-> "Failed to query BigQuery",
                  message |-> IF error.message # "" THEN error.message ELSE "Unknown error",
                  details |-> IF error.stack # "" THEN error.stack
                              ELSE "No additional details available"])

InitializationFailed(error) ==
  Json(500, [error |-> "BigQuery initialization failed",
             message |-> "Could not initialize BigQuery client",
             details |-> error.message,
             troubleshooting |->
               << "Ensure GCP_SERVICE_ACCOUNT_KEY contains valid service account credentials",
                  "Or ensure Application Default Credentials are available in this environment",
                  "Check that the project ID is correct",
                  "Verify network connectivity to Google Cloud APIs" >>])

\* the handler after await bigquery.query(...), bigQuery saying how the
\* query ended
QueryEnded(e, request, bigQuery, built, credentialSource) ==
  IF bigQuery.at = "query"
  THEN Handled(QueryFailed(e, bigQuery.error), <<>>, built.resolution)
  ELSE IF ProcessingThrows(tableOf(request), bigQuery.rows)
  THEN Handled(QueryFailed(e, NotPrimitive), <<>>, built.resolution)
  ELSE Handled(DataFound(e, tableOf(request), built.client.projectId, credentialSource, bigQuery.rows),
               <<>>, built.resolution)

\* the handler from the construction of the client to await
\* bigquery.query(...); bigQuery says how the constructor ends
DataWithClient(e, request, bigQuery, built) ==
  IF bigQuery.at = "new BigQuery"
  THEN Handled(InitializationFailed(bigQuery.error), <<>>, built.resolution)
  ELSE IF \A i \in DOMAIN validTables : validTables[i] # tableOf(request)
  THEN Handled(InvalidTable, << built.client >>, built.resolution)
  ELSE Awaits("query",
              << built.client,
                 Query(e, tableOf(request), built.client.projectId, limitOf(request), daysOf(request)) >>,
              built.resolution)

\* console.log(`Using project ID from credentials: ${projectId}`) throws
\* for a project id that has no text
ProjectIdThrows(explicit, credentialResult) ==
  /\ explicit = <<>>
  /\ credentialResult.success
  /\ Truthy(credentialResult.projectId)
  /\ ~JsToString(credentialResult.projectId).ok

\* the handler up to await bigquery.query(...): an exception of
\* resolveGCPCredentials() or of a template literal reaches the catch block
DataTaken(e, request, bigQuery, built) ==
  IF HasThrown(built.resolution.result)
  THEN Handled(QueryFailed(e, built.resolution.result.threw), <<>>, built.resolution)
  ELSE IF FailsFast(e, built.resolution.result)
  THEN Handled(Json(500, MissingCredentialsBody), <<>>, built.resolution)
  ELSE IF ProjectIdThrows(getFirstSetEnv(e, PROJECT_ID_ENV_NAMES), built.resolution.result)
  THEN Handled(QueryFailed(e, NotPrimitive), <<>>, built.resolution)
  ELSE DataWithClient(e, request, bigQuery, built)

DataGET(e, request, bigQuery, built) ==
  Then(DataTaken(e, request, bigQuery, built),
       QueryEnded(e, request, bigQuery, built, credentialSourceOf(built.resolution.result)))

\* GET /api/bigquery-data
bigqueryDataGET(e, request, bigQuery) ==
  DataGET(e, request, bigQuery,
          ClientFrom(getFirstSetEnv(e, PROJECT_ID_ENV_NAMES), resolveGCPCredentials(e)))

(***************************************************************************)
(* GET /api/credentials-debug.  An analysis is a function from the names   *)
(* of its properties to their values; a text taken from a variable's value *)
(* is a sequence of characters.  The three marks stand for the pictographs *)
(* at the head of the diagnostics.  The message of an exception of         *)
(* JSON.parse is the engine's: the name of the exception stands for it.    *)
(* The body is the object handed to NextResponse.json, which leaves out    *)
(* the properties whose value is undefined.                                *)
(***************************************************************************)
VALID_MARK == "[valid]"
WARNING_MARK == "[warning]"
ERROR_MARK == "[error]"

credentialEnvVars ==
  << "GCP_SERVICE_ACCOUNT_KEY", "GCP_SA_KEY", "GCP_SERVICE_ACCOUNT_JSON",
     "GOOGLE_APPLICATION_CREDENTIALS", "GCP_SERVICE_ACCOUNT", "GCP_CREDENTIALS" >>

\* text.substring(0, n)
FirstChars(text, n) == SubSeq(text, 1, Min(n, Len(text)))

\* text.substring(text.length - n)
LastChars(text, n) == SubSeq(text, Len(text) - Min(n, Len(text)) + 1, Len(text))

NoProperties == [ k \in {} |-> FALSE ]

\* const analysis = { name, set, length, starts_with, ends_with }
AnalysisOf(name, value) ==
  [name |-> name, set |-> TRUE, length |-> Len(value),
   starts_with |-> FirstChars(value, 20), ends_with |-> LastChars(value, 20)]

\* /^[A-Za-z0-9+\/]*={0,2}$/.test(s)
base64Pattern(s) ==
  /\ TrailingPadding(s) <= 2
  /\ \A i \in 1..(Len(s) - TrailingPadding(s)) : s[i] \in Base64Chars

\* v?.substring(0, 10) + '...' and v?.split('@')[1] throw TypeError on a
\* value that is neither a string nor null nor undefined
Nullish(v) == v.t \in {"undefined", "null"}
HasStringMethods(v) == Nullish(v) \/ v.t = "string"

\* parsed.project_id?.substring(0, 10) + '...'
PreviewOf(v) ==
  IF Nullish(v) THEN Chars("undefined...") ELSE FirstChars(v.s, 10) \o <<".", ".", ".">>

\* parsed.client_email?.split('@')[1]
DomainOf(v) ==
  IF Nullish(v) \/ "@" \notin Range(v.s) THEN Undefined
  ELSE JStr(SubSeq(v.s, FirstIn(v.s, 1, {"@"}) + 1,
                   FirstIn(v.s, FirstIn(v.s, 1, {"@"}) + 1, {"@"}) - 1))

\* the properties set from the parsed value before the first exception,
\* their names after the prefix: 'type' in parsed throws TypeError on a
\* value that is no object
FactsOf(parsed, prefix) ==
  IF parsed.t \notin {"object", "array"} THEN [set |-> NoProperties, threw |-> TRUE]
  ELSE LET tested == (prefix \o "has_type" :> HasProp(parsed, K_type))
                       @@ (prefix \o "type_value" :> GetProp(parsed, K_type))
                       @@ (prefix \o "has_project_id" :> HasProp(parsed, K_project_id))
                       @@ (prefix \o "has_private_key" :> HasProp(parsed, K_private_key))
                       @@ (prefix \o "has_client_email" :> HasProp(parsed, K_client_email))
       IN IF ~HasStringMethods(GetProp(parsed, K_project_id))
          THEN [set |-> tested, threw |-> TRUE]
          ELSE IF ~HasStringMethods(GetProp(parsed, K_client_email))
          THEN [set |-> (prefix \o "project_id_preview" :> PreviewOf(GetProp(parsed, K_project_id)))
                          @@ tested,
                threw |-> TRUE]
          ELSE [set |-> (prefix \o "project_id_preview" :> PreviewOf(GetProp(parsed, K_project_id)))
                          @@ (prefix \o "client_email_domain" :> DomainOf(GetProp(parsed, K_client_email)))
                          @@ tested,
                threw |-> FALSE]

\* the branch of a value that starts with {, r being the outcome of
\* JSON.parse(trimmed)
RawJsonAnalysis(r) ==
  ("format" :> "raw_json") @@ ("appears_valid_json" :> r.ok)
    @@ (IF r.ok THEN FactsOf(r.v, "").set ELSE NoProperties)

\* the catch of the parse of the decoded text
NotValidJson(decoded, exception) ==
  ("decoded_is_valid_json" :> FALSE) @@ ("decoded_json_error" :> exception)
    @@ ("decoded_preview" :> FirstChars(decoded, 100))

\* the try of the parse of the decoded text, r being the outcome of
\* JSON.parse(decoded) and facts what was set from its value
DecodedJson(decoded, r, facts) ==
  IF ~r.ok THEN NotValidJson(decoded, "SyntaxError")
  ELSE IF facts.threw THEN NotValidJson(decoded, "TypeError") @@ facts.set
  ELSE ("decoded_is_valid_json" :> TRUE) @@ facts.set

DecodedParsed(decoded, r) ==
  DecodedJson(decoded, r, IF r.ok THEN FactsOf(r.v, "decoded_") ELSE [set |-> NoProperties, threw |-> TRUE])

\* Buffer.from never throws: the decode always succeeds
DecodedAnalysis(decoded) ==
  ("base64_decode_success" :> TRUE) @@ ("decoded_length" :> Len(decoded))
    @@ ("decoded_starts_with" :> FirstChars(decoded, 20))
    @@ DecodedParsed(decoded, JSONParse(decoded))

Base64Analysis(trimmed) ==
  ("format" :> "possibly_base64") @@ ("matches_base64_pattern" :> base64Pattern(trimmed))
    @@ (IF base64Pattern(trimmed) THEN DecodedAnalysis(Utf8Decode(Base64Decode(trimmed), 1))
        ELSE NoProperties)

FormatAnalysis(trimmed) ==
  IF StartsWith(trimmed, <<"{">>) THEN RawJsonAnalysis(JSONParse(trimmed))
  ELSE IF StartsWith(trimmed, <<"/">>)
  THEN ("format" :> "file_path")
         @@ ("warning" :> "File paths do not work in serverless environments like Vercel")
  ELSE Base64Analysis(trimmed)

\* the analysis pushed for a variable that is set
analysisOf(name, value) == AnalysisOf(name, value) @@ FormatAnalysis(Trim(value))

\* the variables of the list that pass if (!value || !value.trim()) continue
AnalysedVars(e) == SelectSeq(credentialEnvVars, LAMBDA name : Trim(EnvGet(e, name)) # <<>>)

credential_sources(e) ==
  [ i \in DOMAIN AnalysedVars(e) |-> analysisOf(AnalysedVars(e)[i], EnvGet(e, AnalysedVars(e)[i])) ]

\* a property that is undefined is falsy
Flag(source, property) == property \in DOMAIN source /\ source[property] = TRUE

PropertyOf(source, property) ==
  IF property \in DOMAIN source THEN source[property] ELSE Undefined

\* the fields the diagnostics list as missing
MissingFieldsOf(source, prefix) ==
  SelectSeq(<< "project_id", "private_key", "client_email" >>,
            LAMBDA field : ~Flag(source, prefix \o "has_" \o field))

Complete(source, prefix) ==
  /\ PropertyOf(source, prefix \o "type_value") = JStr(SERVICE_ACCOUNT)
  /\ Flag(source, prefix \o "has_project_id")
  /\ Flag(source, prefix \o "has_private_key")
  /\ Flag(source, prefix \o "has_client_email")

\* the line about the type of an analysed variable throws for a type that
\* has no text
DiagnosticsThrow(sources) ==
  \E i \in DOMAIN sources :
    /\ sources[i].format = "raw_json"
    /\ sources[i].appears_valid_json
    /\ ~Complete(sources[i], "")
    /\ PropertyOf(sources[i], "type_value") # JStr(SERVICE_ACCOUNT)
    /\ ~JsToString(PropertyOf(sources[i], "type_value")).ok

\* the lines the diagnostics get for one analysed variable
DiagnosticsOf(source) ==
  IF source.format = "raw_json" /\ source.appears_valid_json
  THEN (IF Complete(source, "")
        THEN << VALID_MARK \o " " \o source.name \o ": Valid service account JSON detected" >>
        ELSE IF PropertyOf(source, "type_value") # JStr(SERVICE_ACCOUNT)
        THEN << WARNING_MARK \o " " \o source.name \o ": JSON detected but type is '"
                  \o JsToString(PropertyOf(source, "type_value")).s \o "' (expected 'service_account')" >>
        ELSE << WARNING_MARK \o " " \o source.name \o ": JSON detected but missing fields: "
                  \o JoinWith(MissingFieldsOf(source, ""), ", ") >>)
  ELSE IF source.format = "raw_json"
  THEN << ERROR_MARK \o " " \o source.name \o ": Appears to be JSON but parsing failed" >>
  ELSE IF source.format = "file_path"
  THEN << WARNING_MARK \o " " \o source.name
            \o ": File path detected (won't work in serverless environments)" >>
  ELSE IF ~(source.matches_base64_pattern /\ Flag(source, "base64_decode_success"))
  THEN << WARNING_MARK \o " " \o source.name
            \o ": Unknown format (not JSON, not file path, not base64)" >>
  ELSE IF ~source.decoded_is_valid_json
  THEN << ERROR_MARK \o " " \o source.name \o ": Base64 decodes but result is not valid JSON",
          "   Decoded content starts with: " \o ToStr(source.decoded_starts_with),
          "   JSON parse error: " \o source.decoded_json_error >>
  ELSE IF Complete(source, "decoded_")
  THEN << VALID_MARK \o " " \o source.name
            \o ": Valid base64-encoded service account JSON detected" >>
  ELSE << WARNING_MARK \o " " \o source.name \o ": Base64-encoded but missing fields: "
            \o JoinWith(MissingFieldsOf(source, "decoded_"), ", ") >>

RECURSIVE SourceDiagnostics(_)
SourceDiagnostics(sources) ==
  IF sources = <<>> THEN <<>>
  ELSE DiagnosticsOf(Head(sources)) \o SourceDiagnostics(Tail(sources))

\* envVars.find(name => process.env[name]?.trim()), empty for undefined
FoundIn(e, names) ==
  SelectSeq(names, LAMBDA name : Trim(EnvGet(e, name)) # <<>>)

componentEmailVars == << "GCP_CLIENT_EMAIL", "GCP_SERVICE_ACCOUNT_EMAIL", "GOOGLE_CLIENT_EMAIL" >>
componentKeyVars == << "GCP_PRIVATE_KEY", "GOOGLE_PRIVATE_KEY" >>

\* the line the diagnostics get for the component variables
ComponentDiagnostics(e) ==
  IF FoundIn(e, componentEmailVars) = <<>> \/ FoundIn(e, componentKeyVars) = <<>> THEN <<>>
  ELSE IF "\n" \in Range(EnvGet(e, FoundIn(e, componentKeyVars)[1]))
  THEN << VALID_MARK \o " Component credentials detected (client_email + private_key with proper newlines)" >>
  ELSE IF Includes(EnvGet(e, FoundIn(e, componentKeyVars)[1]), <<"\\", "n">>)
  THEN << WARNING_MARK \o " Component credentials detected but private_key may have escaped newlines (\\n instead of actual newlines)" >>
  ELSE << WARNING_MARK \o " Component credentials detected but private_key format may be incorrect" >>

diagnosticsOf(e, sources) ==
  (IF sources = <<>>
   THEN << ERROR_MARK \o " No GCP credential environment variables found",
           "Set GCP_SERVICE_ACCOUNT_KEY with your service account JSON" >>
   ELSE SourceDiagnostics(sources))
    \o ComponentDiagnostics(e)

Marked(diagnostics, mark) ==
  \E i \in DOMAIN diagnostics : StartsWith(diagnostics[i], mark)

DebugResponse(e, now, sources, diagnostics) ==
  Json(IF Marked(diagnostics, VALID_MARK) THEN 200 ELSE 500,
       [status |-> IF Marked(diagnostics, VALID_MARK) THEN "ok"
                   ELSE IF Marked(diagnostics, ERROR_MARK) THEN "error" ELSE "warning",
        message |-> IF Marked(diagnostics, VALID_MARK) THEN "Valid GCP credentials detected"
                    ELSE "No valid GCP credentials found or credentials have issues",
        debug |-> [timestamp |-> now,
                   environment |-> ToStr(EnvOr(e, "NODE_ENV", Chars("unknown"))),
                   platform |-> IF Truthy(EnvRaw(e, "VERCEL")) THEN "vercel" ELSE "other",
                   diagnostics |-> diagnostics,
                   credential_sources |-> sources],
        recommendations |->
          IF Marked(diagnostics, VALID_MARK)
          THEN << "Credentials appear valid",
                  "Test BigQuery connection at /api/bigquery-data",
                  "Test full config at /api/config-check" >>
          ELSE << "Set GCP_SERVICE_ACCOUNT_KEY to your service account JSON (raw or base64)",
                  "Ensure the JSON file is valid: cat service-account.json | jq .",
                  "For base64 encoding: cat service-account.json | base64 | tr -d \"\\n\"",
                  "After setting, redeploy the application",
                  "Visit /api/config-check for full configuration validation" >>])

\* the handler has no try block around the diagnostics
DebugWith(e, now, sources) ==
  IF DiagnosticsThrow(sources) THEN Uncaught(NotPrimitive)
  ELSE DebugResponse(e, now, sources, diagnosticsOf(e, sources))

\* GET /api/credentials-debug, now being new Date().toISOString()
credentialsDebugGET(e, now) ==
  Handled(DebugWith(e, now, credential_sources(e)), <<>>, NoResolution)

(***************************************************************************)
(* GET /api/config-check.  The marks stand for the pictographs as in       *)
(* credentials-debug; INFO_MARK stands for the information sign.           *)
(***************************************************************************)
INFO_MARK == "[info]"

\* !!process.env[name]
IsSet(e, name) == Truthy(EnvRaw(e, name))

configEmailVars ==
  << "GCP_SERVICE_ACCOUNT_EMAIL", "GCP_CLIENT_EMAIL", "GOOGLE_CLIENT_EMAIL",
     "BIGQUERY_CLIENT_EMAIL", "BQ_CLIENT_EMAIL" >>
configKeyVars ==
  << "GCP_SERVICE_ACCOUNT_KEY_RAW", "GCP_PRIVATE_KEY", "GOOGLE_PRIVATE_KEY",
     "BIGQUERY_PRIVATE_KEY", "BQ_PRIVATE_KEY" >>
configProjectVars ==
  << "GCP_PROJECT", "GOOGLE_CLOUD_PROJECT", "GOOGLE_PROJECT_ID", "GCP_PROJECT_ID",
     "BIGQUERY_PROJECT_ID", "BQ_PROJECT_ID" >>

\* found || null
FirstOrNull(found) == IF found = <<>> THEN JNull ELSE JStr(Chars(found[1]))

gcp_project(e) ==
  [set |-> IsSet(e, "GCP_PROJECT") \/ IsSet(e, "GOOGLE_CLOUD_PROJECT"),
   source |-> IF IsSet(e, "GCP_PROJECT") THEN "GCP_PROJECT"
              ELSE IF IsSet(e, "GOOGLE_CLOUD_PROJECT") THEN "GOOGLE_CLOUD_PROJECT"
              ELSE "default fallback",
   value |-> ToStr(IF IsSet(e, "GCP_PROJECT") THEN EnvGet(e, "GCP_PROJECT")
                   ELSE EnvOr(e, "GOOGLE_CLOUD_PROJECT", DEFAULT_PROJECT_ID)),
   using_default |-> ~(IsSet(e, "GCP_PROJECT") \/ IsSet(e, "GOOGLE_CLOUD_PROJECT"))]

\* the two self-calling functions on GCP_SERVICE_ACCOUNT_KEY, parsed being
\* the outcome of JSON.parse of its value
gcp_service_account_key(e, parsed) ==
  [set |-> IsSet(e, "GCP_SERVICE_ACCOUNT_KEY"),
   valid_json |-> IF IsSet(e, "GCP_SERVICE_ACCOUNT_KEY") THEN JBool(parsed.ok) ELSE JNull,
   has_required_fields |->
     IF IsSet(e, "GCP_SERVICE_ACCOUNT_KEY")
     THEN JBool(/\ parsed.ok
                /\ Truthy(GetProp(parsed.v, K_project_id))
                /\ Truthy(GetProp(parsed.v, K_private_key))
                /\ Truthy(GetProp(parsed.v, K_client_email)))
     ELSE JNull]

google_application_credentials(e) ==
  [set |-> IsSet(e, "GOOGLE_APPLICATION_CREDENTIALS"),
   appears_to_be_json |-> StartsWith(EnvGet(e, "GOOGLE_APPLICATION_CREDENTIALS"), <<"{">>),
   appears_to_be_path |-> "/" \in Range(EnvGet(e, "GOOGLE_APPLICATION_CREDENTIALS"))]

split_env(e) ==
  [email_env |-> FirstOrNull(FoundIn(e, configEmailVars)),
   private_key_env |-> FirstOrNull(FoundIn(e, configKeyVars)),
   project_id_env |-> FirstOrNull(FoundIn(e, configProjectVars)),
   private_key_contains_newlines |->
     IF FoundIn(e, configKeyVars) = <<>> THEN JNull
     ELSE JBool("\n" \in Range(EnvGet(e, FoundIn(e, configKeyVars)[1]))),
   ready |-> FoundIn(e, configEmailVars) # <<>> /\ FoundIn(e, configKeyVars) # <<>>]

configuration(e, parsed) ==
  [gcp_project |-> gcp_project(e),
   bq_dataset_id |-> [set |-> IsSet(e, "BQ_DATASET_ID"),
                      value |-> ToStr(EnvOr(e, "BQ_DATASET_ID", Chars("amazon_ppc (default)")))],
   bq_location |-> [set |-> IsSet(e, "BQ_LOCATION"),
                    value |-> ToStr(EnvOr(e, "BQ_LOCATION", Chars("us-east4 (default)")))],
   credentials |-> [gcp_service_account_key |-> gcp_service_account_key(e, parsed),
                    google_application_credentials |-> google_application_credentials(e),
                    split_env |-> split_env(e)],
   dashboard_api_key |-> [set |-> IsSet(e, "DASHBOARD_API_KEY")]]

\* what a check adds to checks.diagnosis and to checks.recommendations
Finding(diagnosis, recommendations) ==
  [diagnosis |-> diagnosis, recommendations |-> recommendations]

NoFinding == Finding(<<>>, <<>>)

ProjectFinding(config) ==
  IF ~config.gcp_project.set
  THEN Finding(<< WARNING_MARK \o "  GCP_PROJECT or GOOGLE_CLOUD_PROJECT is not set - using default fallback" >>,
               << "For production, set GCP_PROJECT and GOOGLE_CLOUD_PROJECT environment variables to your Google Cloud project ID" >>)
  ELSE Finding(<< VALID_MARK \o " GCP project ID is configured" >>, <<>>)

\* the same finding reported as an error
NotRawJsonFinding_AsError ==
  Finding(<< ERROR_MARK \o "  GCP_SERVICE_ACCOUNT_KEY is set but not valid raw JSON - will try base64 decoding" >>,
          << "The credential may be base64-encoded. The dashboard will automatically try to decode it.",
             "If issues persist, verify: cat service-account.json | base64 | tr -d \"\\n\"" >>)

NotRawJsonFinding ==
  Finding(<< WARNING_MARK \o "  GCP_SERVICE_ACCOUNT_KEY is set but not valid raw JSON - will try base64 decoding" >>,
          << "The credential may be base64-encoded. The dashboard will automatically try to decode it.",
             "If issues persist, verify: cat service-account.json | base64 | tr -d \"\\n\"" >>)

CredentialFinding(credentials) ==
  IF ~credentials.gcp_service_account_key.set
       /\ ~credentials.google_application_credentials.set
       /\ ~credentials.split_env.ready
  THEN Finding(<< WARNING_MARK \o "  No Google Cloud credentials found (GCP_SERVICE_ACCOUNT_KEY, GOOGLE_APPLICATION_CREDENTIALS, or credential parts)" >>,
               << "Add GCP_SERVICE_ACCOUNT_KEY with your service account JSON credentials as a string",
                  "Or add GOOGLE_APPLICATION_CREDENTIALS with the service account JSON",
                  "Alternatively, provide credential parts using variables like GCP_CLIENT_EMAIL and GCP_PRIVATE_KEY (escape newlines as \\n)" >>)
  ELSE IF credentials.gcp_service_account_key.set
  THEN (IF credentials.gcp_service_account_key.valid_json # JBool(TRUE) THEN NotRawJsonFinding
        ELSE IF credentials.gcp_service_account_key.has_required_fields = JBool(TRUE)
        THEN Finding(<< VALID_MARK \o " GCP_SERVICE_ACCOUNT_KEY is valid and contains required fields" >>, <<>>)
        ELSE Finding(<< WARNING_MARK \o "  GCP_SERVICE_ACCOUNT_KEY is valid JSON but missing required fields (project_id, private_key, client_email)" >>,
                     << "Ensure your service account key JSON includes project_id, private_key, and client_email" >>))
  ELSE IF credentials.google_application_credentials.set
  THEN (IF credentials.google_application_credentials.appears_to_be_json
        THEN Finding(<< VALID_MARK \o " GOOGLE_APPLICATION_CREDENTIALS appears to be JSON credentials" >>, <<>>)
        ELSE IF credentials.google_application_credentials.appears_to_be_path
        THEN Finding(<< WARNING_MARK \o "  GOOGLE_APPLICATION_CREDENTIALS appears to be a file path (this works locally but not on Vercel)" >>,
                     << "For Vercel deployment, use GCP_SERVICE_ACCOUNT_KEY with the JSON content instead of a file path" >>)
        ELSE NoFinding)
  ELSE Finding(<< VALID_MARK \o " Google Cloud credential parts detected (client email and private key)" >>,
               IF credentials.split_env.private_key_contains_newlines # JBool(TRUE)
               THEN << "Ensure your private key uses escaped newlines (\\n) so it loads correctly at runtime" >>
               ELSE <<>>)

AdcFinding(e, credentials) ==
  IF /\ IsSet(e, "K_SERVICE") \/ IsSet(e, "FUNCTION_TARGET") \/ IsSet(e, "GAE_SERVICE")
     /\ ~credentials.gcp_service_account_key.set
     /\ ~credentials.google_application_credentials.set
     /\ ~credentials.split_env.ready
  THEN Finding(<< INFO_MARK \o "  Running in GCP environment - Application Default Credentials may be available" >>,
               << "Application Default Credentials (ADC) will be used automatically in GCP environments" >>)
  ELSE NoFinding

ApiKeyFinding(config) ==
  IF ~config.dashboard_api_key.set
  THEN Finding(<< WARNING_MARK \o "  DASHBOARD_API_KEY is not set (required for optimizer integration)" >>,
               << "Set DASHBOARD_API_KEY to match the key in your Cloud Function Secret Manager" >>)
  ELSE NoFinding

\* the findings of the four checks, in their order
FindingsOf(e, config) ==
  << ProjectFinding(config), CredentialFinding(config.credentials),
     AdcFinding(e, config.credentials), ApiKeyFinding(config) >>

diagnosisOf(findings) ==
  findings[1].diagnosis \o findings[2].diagnosis \o findings[3].diagnosis \o findings[4].diagnosis

recommendationsOf(findings) ==
  findings[1].recommendations \o findings[2].recommendations
    \o findings[3].recommendations \o findings[4].recommendations

ConfigResponse(e, now, config, diagnosis, recommendations) ==
  Json(IF ~Marked(diagnosis, ERROR_MARK) THEN 200 ELSE 500,
       [status |-> IF Marked(diagnosis, ERROR_MARK) THEN "error"
                   ELSE IF Marked(diagnosis, WARNING_MARK) THEN "warning" ELSE "ok",
        message |-> IF ~Marked(diagnosis, ERROR_MARK) THEN "Configuration appears correct"
                    ELSE "Configuration issues detected - see diagnosis and recommendations",
        checks |-> [timestamp |-> now,
                    environment |-> ToStr(EnvOr(e, "NODE_ENV", Chars("unknown"))),
                    configuration |-> config,
                    diagnosis |-> diagnosis,
                    recommendations |-> recommendations],
        next_steps |->
          IF ~Marked(diagnosis, ERROR_MARK) /\ ~Marked(diagnosis, WARNING_MARK)
          THEN << "Test BigQuery connection: GET /api/bigquery-data?table=optimization_results&limit=1",
                  "Check if data exists in BigQuery tables",
                  "Verify optimizer is writing to BigQuery" >>
          ELSE recommendations])

ConfigChecked(e, now, config, findings) ==
  ConfigResponse(e, now, config, diagnosisOf(findings), recommendationsOf(findings))

ConfigWith(e, now, config) == ConfigChecked(e, now, config, FindingsOf(e, config))

\* GET /api/config-check, now being new Date().toISOString()
configCheckGET(e, now) ==
  Handled(ConfigWith(e, now, configuration(e, JSONParse(EnvGet(e, "GCP_SERVICE_ACCOUNT_KEY")))),
          <<>>, NoResolution)

(***************************************************************************)
(* GET /api/setup-guide.  CHECK_MARK, CROSS_MARK, BULLET and ARROW stand   *)
(* for the check mark, the ballot cross, the bullet and the arrow of the   *)
(* texts.                                                                  *)
(***************************************************************************)
CHECK_MARK == "[check]"
CROSS_MARK == "[cross]"
BULLET == "[bullet]"
ARROW == "[arrow]"

step1(credentialResult) ==
  [step |-> 1,
   title |-> "Google Cloud Service Account Credentials",
   status |-> IF credentialResult.success THEN "complete" ELSE "incomplete",
   required |-> TRUE,
   description |-> "Service account credentials are required to read optimization data from BigQuery",
   currentValue |-> IF credentialResult.success
                    THEN CHECK_MARK \o " Credentials loaded from " \o credentialResult.source
                    ELSE CROSS_MARK \o " No valid credentials found",
   instructions |->
     IF credentialResult.success THEN <<>>
     ELSE << "Download your service account key JSON file from Google Cloud Console",
             "Go to: https://console.cloud.google.com/iam-admin/serviceaccounts",
             "Select your service account (or create a new one)",
             "Go to \"Keys\" tab " \o ARROW \o " \"Add Key\" " \o ARROW \o " \"Create new key\" "
               \o ARROW \o " JSON format",
             "Copy the entire JSON file contents",
             "In your Vercel/deployment platform, set environment variable: GCP_SERVICE_ACCOUNT_KEY",
             "Paste the JSON as the value (can be raw JSON or base64-encoded)",
             "Redeploy the dashboard" >>,
   helpfulLinks |-> << "https://cloud.google.com/iam/docs/keys-create-delete",
                       "https://vercel.com/docs/projects/environment-variables" >>]

\* projectId is getFirstSetEnv(PROJECT_ID_ENV_NAMES), empty for undefined
step2(projectId) ==
  [step |-> 2,
   title |-> "Google Cloud Project ID",
   status |-> IF projectId # <<>> THEN "complete" ELSE "warning",
   required |-> FALSE,
   description |-> "Project ID helps identify which GCP project to use",
   currentValue |-> IF projectId # <<>> THEN CHECK_MARK \o " Using project: " \o ToStr(projectId)
                    ELSE "Using default project (amazon-ppc-474902)",
   instructions |->
     IF projectId # <<>> THEN <<>>
     ELSE << "Optional: Set GCP_PROJECT or GOOGLE_CLOUD_PROJECT environment variable",
             "Use your actual Google Cloud project ID",
             "If not set, the default project will be used" >>]

\* projectId || 'YOUR_PROJECT_ID'
ProjectIdOr(projectId) == IF projectId # <<>> THEN ToStr(projectId) ELSE "YOUR_PROJECT_ID"

step3(credentialResult, projectId) ==
  [step |-> 3,
   title |-> "BigQuery Permissions",
   status |-> IF credentialResult.success THEN "needs_verification" ELSE "incomplete",
   required |-> TRUE,
   description |-> "Service account needs permissions to read BigQuery data",
   currentValue |-> IF credentialResult.success
                    THEN "Credentials loaded - permissions need verification"
                    ELSE "Cannot check until credentials are configured",
   instructions |->
     IF credentialResult.success
     THEN << "Test BigQuery access by visiting: /api/bigquery-data?limit=1",
             "If you see a permissions error, grant these roles to your service account:",
             "  " \o BULLET \o " roles/bigquery.dataViewer (to read data)",
             "  " \o BULLET \o " roles/bigquery.jobUser (to run queries)",
             "",
             "To grant permissions in Google Cloud Console:",
             "1. Go to: https://console.cloud.google.com/iam-admin/iam",
             "2. Find your service account in the list",
             "3. Click \"Edit\" (pencil icon)",
             "4. Add the required roles",
             "5. Click \"Save\"",
             "",
             "Or use gcloud CLI:",
             "gcloud projects add-iam-policy-binding " \o ProjectIdOr(projectId) \o " \\",
             "  --member=\"serviceAccount:YOUR_SERVICE_ACCOUNT_EMAIL\" \\",
             "  --role=\"roles/bigquery.dataViewer\"",
             "gcloud projects add-iam-policy-binding " \o ProjectIdOr(projectId) \o " \\",
             "  --member=\"serviceAccount:YOUR_SERVICE_ACCOUNT_EMAIL\" \\",
             "  --role=\"roles/bigquery.jobUser\"" >>
     ELSE << "Configure credentials first (Step 1)" >>]

step4 ==
  [step |-> 4,
   title |-> "BigQuery Dataset and Tables",
   status |-> "needs_verification",
   required |-> TRUE,
   description |-> "The optimizer must have created the BigQuery dataset and tables",
   currentValue |-> "Dataset existence needs verification",
   instructions |->
     << "The optimizer automatically creates the BigQuery dataset and tables when it runs",
        "If tables don't exist, run the optimizer at least once",
        "The optimizer creates these tables:",
        "  " \o BULLET \o " optimization_results - Main results data",
        "  " \o BULLET \o " campaign_details - Campaign-level breakdown",
        "  " \o BULLET \o " optimizer_run_events - Run history",
        "",
        "Verify by visiting: /api/bigquery-data?limit=1",
        "If you see a \"Not found\" error, trigger an optimization run" >>]

step5(allStepsComplete) ==
  [step |-> 5,
   title |-> "Test Dashboard Data",
   status |-> IF allStepsComplete THEN "ready" ELSE "waiting",
   required |-> TRUE,
   description |-> "Verify that live data is displayed on the dashboard",
   currentValue |-> IF allStepsComplete THEN "Ready to test" ELSE "Complete previous steps first",
   instructions |->
     IF allStepsComplete
     THEN << "Go to the dashboard home page: /",
             "You should see optimization results and statistics",
             "If you see errors, check the previous steps",
             "If you see \"No optimization runs found\", trigger an optimization" >>
     ELSE << "Complete steps 1-4 first" >>]

\* allStepsComplete after the first four steps: step 1 and step 3 clear it
\* when their status is incomplete
allStepsCompleteOf(first, third) ==
  first.status # "incomplete" /\ third.status # "incomplete"

setupStepsOf(credentialResult, projectId) ==
  << step1(credentialResult), step2(projectId), step3(credentialResult, projectId), step4,
     step5(allStepsCompleteOf(step1(credentialResult), step3(credentialResult, projectId))) >>

overallStatus(setupSteps, allStepsComplete) ==
  [complete |-> allStepsComplete,
   totalSteps |-> Len(setupSteps),
   completedSteps |-> Cardinality({ i \in DOMAIN setupSteps : setupSteps[i].status = "complete" }),
   message |-> IF allStepsComplete
               THEN CHECK_MARK \o " Basic setup is complete! Test the dashboard at /"
               ELSE "Setup incomplete - follow the steps below"]

SetupResponse(now, setupSteps) ==
  Json(200,
       [success |-> TRUE,
        timestamp |-> now,
        status |-> overallStatus(setupSteps, allStepsCompleteOf(setupSteps[1], setupSteps[3])),
        setupSteps |-> setupSteps,
        quickStart |->
          [title |-> "Quick Start (2 minutes)",
           steps |-> << "1. Get service account key from Google Cloud Console",
                        "2. Set GCP_SERVICE_ACCOUNT_KEY in Vercel environment variables",
                        "3. Grant BigQuery permissions (dataViewer + jobUser roles)",
                        "4. Redeploy and visit /" >>],
        troubleshooting |->
          [noDataShowing |->
             << "Check /api/config-check for configuration issues",
                "Check /api/bigquery-data?limit=1 to test BigQuery connection",
                "Ensure the optimizer has run at least once to populate data",
                "Check service account has BigQuery permissions" >>,
           credentialErrors |->
             << "Verify GCP_SERVICE_ACCOUNT_KEY contains valid JSON",
                "Try base64 encoding: cat service-account.json | base64 | tr -d \"\\n\"",
                "Ensure no extra spaces or newlines in the environment variable",
                "Redeploy after changing environment variables" >>,
           permissionErrors |->
             << "Grant roles/bigquery.dataViewer to service account",
                "Grant roles/bigquery.jobUser to service account",
                "Wait 1-2 minutes for permission changes to propagate",
                "Verify you're using the correct project ID" >>]])

\* the handler with what resolveGCPCredentials() gave it; it has no try
\* block
SetupGuideWith(e, now, returned) ==
  IF HasThrown(returned.result) THEN Handled(Uncaught(returned.result.threw), <<>>, returned)
  ELSE Handled(SetupResponse(now, setupStepsOf(returned.result, getFirstSetEnv(e, PROJECT_ID_ENV_NAMES))),
               <<>>, returned)

\* GET /api/setup-guide, now being new Date().toISOString()
setupGuideGET(e, now) == SetupGuideWith(e, now, resolveGCPCredentials(e))

(***************************************************************************)
(* Inputs: credential objects, their encodings, and the values the         *)
(* environments of the model hold.                                         *)
(***************************************************************************)
RECURSIVE Quote(_)
\* the characters of s as JSON.stringify writes them inside a string literal
Quote(s) ==
  IF s = <<>> THEN <<>>
  ELSE (CASE Head(s) = "\"" -> <<"\\", "\"">>
          [] Head(s) = "\\" -> <<"\\", "\\">>
          [] Head(s) = "\n" -> <<"\\", "n">>
          [] Head(s) = "\r" -> <<"\\", "r">>
          [] Head(s) = "\t" -> <<"\\", "t">>
          [] Head(s) = "\f" -> <<"\\", "f">>
          [] OTHER -> <<Head(s)>>) \o Quote(Tail(s))

RECURSIVE StringifyMembers(_)
StringifyMembers(pairs) ==
  IF pairs = <<>> THEN <<>>
  ELSE <<"\"">> \o Quote(pairs[1][1]) \o <<"\"", ":", "\"">> \o Quote(pairs[1][2]) \o <<"\"">>
       \o (IF Len(pairs) > 1 THEN <<",">> ELSE <<>>) \o StringifyMembers(Tail(pairs))

\* JSON.stringify of the object with the given members, all strings
Stringify(pairs) == <<"{">> \o StringifyMembers(pairs) \o <<"}">>

RECURSIVE ObjectOf(_)
\* the object with the given members
ObjectOf(pairs) ==
  IF pairs = <<>> THEN NoFields
  ELSE SetField(ObjectOf(SubSeq(pairs, 1, Len(pairs) - 1)),
                pairs[Len(pairs)][1], JStr(pairs[Len(pairs)][2]))

RECURSIVE Base64Sextets(_)
Base64Sextets(bytes) ==
  IF bytes = <<>> THEN <<>>
  ELSE IF Len(bytes) = 1
  THEN << Base64Alphabet[bytes[1] \div 4 + 1], Base64Alphabet[(bytes[1] % 4) * 16 + 1], "=", "=" >>
  ELSE IF Len(bytes) = 2
  THEN << Base64Alphabet[bytes[1] \div 4 + 1],
          Base64Alphabet[(bytes[1] % 4) * 16 + bytes[2] \div 16 + 1],
          Base64Alphabet[(bytes[2] % 16) * 4 + 1], "=" >>
  ELSE << Base64Alphabet[bytes[1] \div 4 + 1],
          Base64Alphabet[(bytes[1] % 4) * 16 + bytes[2] \div 16 + 1],
          Base64Alphabet[(bytes[2] % 16) * 4 + bytes[3] \div 64 + 1],
          Base64Alphabet[(bytes[3] % 64) + 1] >> \o Base64Sextets(SubSeq(bytes, 4, Len(bytes)))

\* the base64 text of an ASCII text (cat file | base64 | tr -d "\n")
Base64Encode(text) == Base64Sextets([ i \in DOMAIN text |-> AsciiCode[text[i]] ])

\* the key materials of the credential objects
KeyMaterials == { <<"m">>, <<"a", "%", "7", "B", "b">> }

Credential(type, privateKey) ==
  << <<K_type, type>>, <<K_project_id, <<"p", "1">>>>, <<K_private_key_id, <<"k", "1">>>>,
     <<K_private_key, privateKey>>, <<K_client_email, <<"p", "@", "x">>>> >>

\* the valid credential objects: the discriminator and the five mandatory
\* fields, as ordered members
ValidCredentials == { Credential(SERVICE_ACCOUNT, k) : k \in KeyMaterials }

\* a credential object with the key material as its last member
KeyLastCredential(privateKey) ==
  << <<K_type, SERVICE_ACCOUNT>>, <<K_project_id, <<"p", "1">>>>, <<K_private_key_id, <<"k", "1">>>>,
     <<K_client_email, <<"p", "@", "x">>>>, <<K_private_key, privateKey>> >>

\* encodeURIComponent(text) of an ASCII text, as the operator who sets the
\* variable would run it
HexDigitOf(n) == IF n < 10 THEN Chr(48 + n) ELSE Chr(55 + n)

Unreserved ==
  UpperLetters \cup LowerLetters \cup Digits \cup {"-", "_", ".", "!", "~", "*", "'", "(", ")"}

RECURSIVE EncodeURIComponent(_)
EncodeURIComponent(text) ==
  IF text = <<>> THEN <<>>
  ELSE IF Len(text) = 1
  THEN (IF text[1] \in Unreserved THEN text
        ELSE <<"%", HexDigitOf(AsciiCode[text[1]] \div 16), HexDigitOf(AsciiCode[text[1]] % 16)>>)
  ELSE EncodeURIComponent(SubSeq(text, 1, Len(text) \div 2))
         \o EncodeURIComponent(SubSeq(text, Len(text) \div 2 + 1, Len(text)))

EmptyKeyCredential == Credential(SERVICE_ACCOUNT, <<>>)
WrongTypeCredential == Credential(<<"u", "s", "e", "r">>, <<"m">>)
NoKeyIdCredential ==
  SelectSeq(Credential(SERVICE_ACCOUNT, <<"m">>), LAMBDA pair : pair[1] # K_private_key_id)

NotJsonAtAll == <<"n", "o", "t", " ", "j", "s", "o", "n", " ", "a", "t", " ", "a", "l", "l">>
BrokenJson == <<"{", "b", "a", "d">>
PercentBrokenJson == <<"%", "7", "B", "b", "a", "d">>
Blank == <<" ">>
\* an object whose type is an object with a toString of its own
TypeWithoutText == Chars("{\"type\":{\"toString\":1}}")

\* the values every blob variable may hold
CoreBlobValues ==
  { Stringify(c) : c \in ValidCredentials }
    \cup { Base64Encode(Stringify(Credential(SERVICE_ACCOUNT, <<"m">>))) }
    \cup { NotJsonAtAll, <<"0">>, Stringify(NoKeyIdCredential), Blank }

\* the values the first blob variable may hold
AllBlobValues ==
  CoreBlobValues
    \cup { Base64Encode(Stringify(c)) : c \in ValidCredentials }
    \cup { Stringify(EmptyKeyCredential), Stringify(WrongTypeCredential),
           Stringify(KeyLastCredential(<<"m">>)),
           EncodeURIComponent(Stringify(Credential(SERVICE_ACCOUNT, <<"m">>))),
           BrokenJson, PercentBrokenJson, <<"n", "u", "l", "l">>, <<"4", "2">>, <<"[", "1", "]">>, <<"f", "a", "l", "s", "e">>,
           TypeWithoutText }

\* the values GOOGLE_APPLICATION_CREDENTIALS may hold
GoogleBlobValues == CoreBlobValues \cup { BrokenJson }

\* the two halves of a credential text, for the numbered part variables
PartValues ==
  LET text == Stringify(Credential(SERVICE_ACCOUNT, <<"m">>))
  IN { SubSeq(text, 1, 40), SubSeq(text, 41, Len(text)), Blank }

EmailValues == { <<"p", "@", "x">>, Blank }
PrivateKeyValues ==
  { <<"k", "\\", "n", "m">>,
    <<" ", "\\", "\\", "n", "k", "\\", "n", "m", " ">>,
    <<" ", "m", "n", " ">>,
    Blank }
ProjectIdValues == { <<" ", "p", "2", " ">>, Blank }
ApiKey == <<"k", "1">>

ValuesOf(v) ==
  IF v.suffix # <<>> THEN (IF v.base = "GCP_CLIENT_EMAIL" THEN EmailValues ELSE PartValues)
  ELSE IF v.base = SERVICE_ACCOUNT_JSON_ENV_NAMES[1] THEN AllBlobValues
  ELSE IF v.base \in Range(SERVICE_ACCOUNT_JSON_ENV_NAMES) THEN CoreBlobValues
  ELSE IF v.base \in Range(GOOGLE_APPLICATION_CREDENTIALS_NAMES) THEN GoogleBlobValues
  ELSE IF v.base \in Range(SERVICE_ACCOUNT_EMAIL_ENV_NAMES) THEN EmailValues
  ELSE IF v.base \in Range(SERVICE_ACCOUNT_KEY_ENV_NAMES) THEN PrivateKeyValues
  ELSE IF v.base = "DASHBOARD_API_KEY" THEN { ApiKey }
  ELSE IF v.base = "K_SERVICE" THEN { <<"s", "v", "c">> }
  ELSE ProjectIdValues

EmptyEnv == [ v \in {} |-> <<>> ]

RECURSIVE EnvsOver(_)
\* the environments that set exactly the variables D
EnvsOver(D) ==
  IF D = {} THEN { EmptyEnv }
  ELSE LET v == CHOOSE v \in D : TRUE
       IN { [ w \in D |-> IF w = v THEN x ELSE f[w] ] : f \in EnvsOver(D \ {v}), x \in ValuesOf(v) }

Environments ==
  UNION { EnvsOver(D) : D \in { D \in SUBSET Range(EnvOrder) : Cardinality(D) <= MaxSet } }

(***************************************************************************)
(* The requests of the model.                                              *)
(***************************************************************************)
Header(text) == JStr(text)
Absent == JNull

BearerOf(key) == <<"B", "e", "a", "r", "e", "r", " ">> \o key

FullBody == <<"{", "\"", "r", "u", "n", "_", "i", "d", "\"", ":", "\"", "r", "1", "\"", ",", "\"", "s", "t", "a", "t", "u", "s", "\"", ":", "\"", "o", "k", "\"", ",", "\"", "t", "i", "m", "e", "s", "t", "a", "m", "p", "\"", ":", "\"", "t", "1", "\"", "}">>
PartialBody == <<"{", "\"", "r", "u", "n", "_", "i", "d", "\"", ":", "\"", "r", "1", "\"", ",", "\"", "s", "t", "a", "t", "u", "s", "\"", ":", "\"", "\"", "}">>

Post(authorization, xApiKey, body) ==
  [authorization |-> authorization, xApiKey |-> xApiKey, body |-> body]

PostRequests ==
  { Post(Absent, Absent, FullBody),
    Post(Header(BearerOf(ApiKey)), Absent, FullBody),
    Post(Header(BearerOf(<<"z", "z">>)), Absent, FullBody),
    Post(Header(ApiKey), Absent, FullBody),
    Post(Absent, Header(ApiKey), FullBody),
    Post(Header(BearerOf(ApiKey)), Absent, PartialBody),
    Post(Header(BearerOf(ApiKey)), Absent, BrokenJson),
    Post(Header(BearerOf(ApiKey)), Absent, <<"n", "u", "l", "l">>) }

Get(table, limit, days) == [table |-> table, limit |-> limit, days |-> days]

GetRequests ==
  { Get(Absent, Absent, Absent),
    Get(Header(Chars("summary")), Header(Chars("0")), Header(Chars("-3"))),
    Get(Header(Chars("campaign_details")), Header(Chars(" 25 rows")), Header(Chars("0x10"))),
    Get(Header(Chars("bogus")), Absent, Absent),
    Get(Header(<<>>), Header(Chars("500")), Header(Chars("many"))) }

Thrown(message, code) == Raised("Error", message, code)

Rows ==
  << JObj(ObjectOf(<< <<K_run_id, <<"r", "1">>>>, <<Chars("campaigns"), <<"[", "1", "]">>>>,
                      <<Chars("features"), BrokenJson>> >>)) >>

\* how the BigQuery constructor ends
ConstructorOutcomes ==
  { [at |-> "constructed"],
    [at |-> "new BigQuery", error |-> Thrown("invalid credentials object", 0)] }

\* how the query ends
QueryOutcomes ==
  { [at |-> "rows", rows |-> <<>>],
    [at |-> "rows", rows |-> Rows],
    [at |-> "query", error |-> Thrown("Not found: Dataset amazon_ppc_data", 404)],
    [at |-> "query", error |-> Thrown("Access Denied: User does not have bigquery.jobs.create permission", 403)],
    [at |-> "query", error |-> Thrown("Could not load the default credentials.", 0)],
    [at |-> "query", error |-> Thrown("The Credentials file is Missing", 0)],
    [at |-> "query", error |-> Thrown("socket hang up", 0)] }

\* how the BigQuery constructor and the query end
BigQueryOutcomes == ConstructorOutcomes \cup QueryOutcomes

\* the times of a request, as new Date().toISOString() gives them
Timestamps == { "2024-01-01T00:00:00.000Z", "2024-01-01T00:00:01.000Z" }

\* how table.insert ends
InsertOutcomes == { "inserted", "row errors", "throws" }

\* the environments in which the model lets a second request in: those
\* that set nothing but the API key and the mark of Cloud Run
Busy(e) == DOMAIN e \subseteq { Var("DASHBOARD_API_KEY"), Var("K_SERVICE") }

\* how many requests the process takes in a behaviour
RequestsIn(e) == IF Busy(e) THEN MaxRequests ELSE 1

(***************************************************************************)
(* The state machine.  The process starts in some environment.  A          *)
(* behaviour shows either one call of resolveGCPCredentials or requests to *)
(* the routes.  A handler runs on the event loop: a step of the machine is *)
(* the stretch of one handler from its start, or from the end of the call  *)
(* it awaited, to its answer or its next await; the stretches of requests  *)
(* in flight interleave.  requests holds the requests taken, in the order  *)
(* of their arrival, each with the call its handler awaits and, once the   *)
(* handler answered, its response; effects holds what the handlers did     *)
(* outside the process, in the order it was done, each effect with the     *)
(* place in requests of the request it belongs to.  The handlers keep      *)
(* nothing between requests and never write the environment.               *)
(* resolveGCPCredentials reads nothing but the environment: resolution is  *)
(* how its call ends in the environment of the process, for whoever calls  *)
(* it.                                                                     *)
(***************************************************************************)
Init ==
  /\ env \in Environments
  /\ resolution = resolveGCPCredentials(env)
  /\ result = NotCalled
  /\ steps = <<>>
  /\ requests = <<>>
  /\ effects = <<>>

\* the direct call of resolveGCPCredentials
Resolve ==
  /\ result = NotCalled
  /\ requests = <<>>
  /\ result' = resolution.result
  /\ steps' = resolution.steps
  /\ UNCHANGED <<env, resolution, requests, effects>>

\* the effects of the request at place k
Tagged(k, done) == [ i \in DOMAIN done |-> [of |-> k, effect |-> done[i]] ]

\* the process takes a request, and its handler runs its first stretch
Takes(route, request, handled) ==
  /\ result = NotCalled
  /\ Len(requests) < RequestsIn(env)
  /\ requests' = Append(requests,
                        [route |-> route, request |-> request, awaits |-> handled.awaits,
                         ended |-> <<>>, response |-> handled.response,
                         returned |-> handled.resolution])
  /\ effects' = effects \o Tagged(Len(requests) + 1, handled.effects)
  /\ UNCHANGED <<env, resolution, result, steps>>

\* the call the handler of the request at place k awaited has ended as
\* outcome says, and the handler runs its next stretch
Continues(k, outcome, handled) ==
  /\ requests' = [requests EXCEPT ![k].awaits = handled.awaits,
                                   ![k].ended = Append(@, outcome),
                                   ![k].response = handled.response,
                                   ![k].returned = handled.resolution]
  /\ effects' = effects \o Tagged(k, handled.effects)
  /\ UNCHANGED <<env, resolution, result, steps>>

\* the requests of a route whose handler awaits the call
Awaiting(route, call) ==
  { k \in DOMAIN requests : requests[k].route = route /\ requests[k].awaits = call }

OptimizationStatus ==
  \E request \in PostRequests :
    Takes("POST /api/optimization-status", request, KeyChecked(env, request))

StatusBodyRead ==
  \E k \in Awaiting("POST /api/optimization-status", "request.json") :
    Continues(k, "read", LogBody(JSONParse(requests[k].request.body), "console.log"))

OptimizationError ==
  \E request \in PostRequests :
    Takes("POST /api/optimization-error", request, BearerKeyChecked(env, request))

ErrorBodyRead ==
  \E k \in Awaiting("POST /api/optimization-error", "request.json") :
    Continues(k, "read", LogBody(JSONParse(requests[k].request.body), "console.error"))

OptimizationResults ==
  \E request \in PostRequests :
    Takes("POST /api/optimization-results", request, KeyChecked(env, request))

ResultsBodyReadWith(built) ==
  \E k \in Awaiting("POST /api/optimization-results", "request.json") :
    Continues(k, "read", ResultsAccepted(env, JSONParse(requests[k].request.body), built))

ResultsBodyRead ==
  ResultsBodyReadWith(ClientFrom(getFirstSetEnv(env, PROJECT_ID_ENV_NAMES), resolution))

InsertEnds ==
  \E k \in Awaiting("POST /api/optimization-results", "insert") :
    \E insertOutcome \in InsertOutcomes :
      Continues(k, insertOutcome,
                InsertEnded(JSONParse(requests[k].request.body).v, requests[k].returned, insertOutcome))

DataWith(built) ==
  \E request \in GetRequests, bigQuery \in ConstructorOutcomes :
    Takes("GET /api/bigquery-data", request, DataTaken(env, request, bigQuery, built))

BigQueryData ==
  DataWith(ClientFrom(getFirstSetEnv(env, PROJECT_ID_ENV_NAMES), resolution))

QueryEndsWith(built) ==
  \E k \in Awaiting("GET /api/bigquery-data", "query") :
    \E bigQuery \in QueryOutcomes :
      Continues(k, bigQuery,
                QueryEnded(env, requests[k].request, bigQuery, built,
                           credentialSourceOf(built.resolution.result)))

QueryEnds ==
  QueryEndsWith(ClientFrom(getFirstSetEnv(env, PROJECT_ID_ENV_NAMES), resolution))

CredentialsDebug ==
  \E now \in Timestamps :
    Takes("GET /api/credentials-debug", [now |-> now], credentialsDebugGET(env, now))

ConfigCheck ==
  \E now \in Timestamps :
    Takes("GET /api/config-check", [now |-> now], configCheckGET(env, now))

SetupGuide ==
  \E now \in Timestamps :
    Takes("GET /api/setup-guide", [now |-> now], SetupGuideWith(env, now, resolution))

Next ==
  \/ Resolve
  \/ CredentialsDebug
  \/ ConfigCheck
  \/ SetupGuide
  \/ BigQueryData
  \/ QueryEnds
  \/ OptimizationStatus
  \/ StatusBodyRead
  \/ OptimizationError
  \/ ErrorBodyRead
  \/ OptimizationResults
  \/ ResultsBodyRead
  \/ InsertEnds

Spec == Init /\ [][Next]_vars

\* the call has ended
Called == result # NotCalled

\* the call has returned a result
Returned == Called /\ ~HasThrown(result)

(***************************************************************************)
(* Vocabulary of the properties.                                           *)
(***************************************************************************)
\* the lookup over the named blob variables, and over
\* GOOGLE_APPLICATION_CREDENTIALS
BlobLookup == getFirstSetEnvWithName(env, SERVICE_ACCOUNT_JSON_ENV_NAMES)
GoogleLookup == getFirstSetEnvWithName(env, GOOGLE_APPLICATION_CREDENTIALS_NAMES)

\* the blob names in priority order: the named list, then
\* GOOGLE_APPLICATION_CREDENTIALS
BlobNames == Leading(SERVICE_ACCOUNT_JSON_ENV_NAMES) \o GOOGLE_APPLICATION_CREDENTIALS_NAMES

\* the trimmed value of the variable called name, empty when unset or blank
ValueOf(name) == Trim(EnvGet(env, name))

\* the blob value the resolver works on: that of the named list when it has
\* one, else that of GOOGLE_APPLICATION_CREDENTIALS
WinningBlob == IF BlobLookup.found THEN BlobLookup ELSE GoogleLookup

\* the variable at place i holds the text and is the one the resolver works
\* on: no blob variable of higher priority, whole or in numbered parts,
\* holds a non-blank value
HighestSetBlob(i, text) == WinningBlob = Found(BlobNames[i], text)

\* the value of the variable called name decodes and passes validation
HoldsValidCredential(name) ==
  /\ ValueOf(name) # <<>>
  /\ ParseAndValidate(Found(name, ValueOf(name))).decided
  /\ ParseAndValidate(Found(name, ValueOf(name))).result.success

\* no blob variable, whole or in numbered parts, holds a non-blank value
NoBlobSet == ~BlobLookup.found /\ ~GoogleLookup.found

\* the kinds of failure of a value that is set but malformed
MalformedKinds == { "invalid_json", "invalid_base64", "invalid_structure", "missing_fields" }

(***************************************************************************)
(* Resolution order (C1, C2).                                              *)
(***************************************************************************)
\* C1: the blob variables are tried in priority order and the first one that
\* decodes and passes validation wins: whenever some blob variable holds a
\* valid credential, the call returns the Success obtained from the
\* highest-priority such variable, even when a blob variable of higher
\* priority holds a value that fails.
C1_FirstValidBlobWins ==
  Called =>
    \A i \in DOMAIN BlobNames :
      (HoldsValidCredential(BlobNames[i])
         /\ \A j \in 1..(i - 1) : ~HoldsValidCredential(BlobNames[j]))
      => result = ParseAndValidate(Found(BlobNames[i], ValueOf(BlobNames[i]))).result

\* C2: the component assembler is tried whenever no blob produced a valid
\* credential: a call never returns a Failure without having gone through
\* the component path.
C2_FailureOnlyAfterParts ==
  Returned /\ ~result.success => "parts" \in Range(steps)

(***************************************************************************)
(* Decoding (C3, C4).                                                      *)
(***************************************************************************)
\* C3: when the winning blob variable holds JSON.stringify(C) of a valid
\* credential object C, whatever characters its string values contain, the
\* call returns Success whose credentials equal C and whose project
\* identifier is that of C, through the direct parse.
C3_RawJsonReturnedAsIs ==
  Called =>
    \A i \in DOMAIN BlobNames : \A c \in ValidCredentials :
      HighestSetBlob(i, Stringify(c))
      => result = Success(JObj(ObjectOf(c)), JStr(<<"p", "1">>), BlobNames[i] \o " (raw JSON)")

\* C4: when the winning blob variable holds the base64 encoding of
\* JSON.stringify(C) of a valid credential object C, the call returns
\* Success whose credentials equal C.
C4_Base64RoundTrip ==
  Called =>
    \A i \in DOMAIN BlobNames : \A c \in ValidCredentials :
      HighestSetBlob(i, Base64Encode(Stringify(c)))
      => /\ result.success
         /\ result.credentials = JObj(ObjectOf(c))
         /\ result.projectId = JStr(<<"p", "1">>)

\* a base64 credential in a blob variable that is not the first, resolved
C4_Witness ==
  /\ Called
  /\ result.success
  /\ \E i \in DOMAIN BlobNames : \E c \in ValidCredentials :
       i > 1 /\ HighestSetBlob(i, Base64Encode(Stringify(c)))

(***************************************************************************)
(* Component credentials (C5).                                             *)
(***************************************************************************)
\* C5: with no blob variable set, and an email variable and a private-key
\* variable both set to usable values, the call returns Success with the
\* credential the assembler built.
C5_PartsResolve ==
  Called /\ NoBlobSet
         /\ (\E i \in DOMAIN SERVICE_ACCOUNT_EMAIL_ENV_NAMES :
               ValueOf(SERVICE_ACCOUNT_EMAIL_ENV_NAMES[i]) # <<>>)
         /\ (\E i \in DOMAIN SERVICE_ACCOUNT_KEY_ENV_NAMES :
               ValueOf(SERVICE_ACCOUNT_KEY_ENV_NAMES[i]) # <<>>)
  => /\ result.success
     /\ result.credentials = buildCredentialsFromEnvironmentParts(env)

(***************************************************************************)
(* Validation (C6, C7).                                                    *)
(***************************************************************************)
\* C6: when the text of the winning blob variable is valid JSON but not an
\* object (a number, a boolean, a string, null or a list), the call returns
\* the structural failure and never Success.
C6_NonObjectRejected ==
  Returned /\ BlobLookup.found /\ JSONParse(BlobLookup.value).ok
         /\ JSONParse(BlobLookup.value).v.t # "object"
  => ~result.success /\ result.error.type = "invalid_structure"

\* C7: a credential object is returned as Success only if its discriminator
\* is service_account and each of the five mandatory keys is present with a
\* non-empty value.
C7_SuccessHasAllFields ==
  Called /\ result.success /\ result.credentials.t = "object"
  => /\ GetProp(result.credentials, K_type) = JStr(SERVICE_ACCOUNT)
     /\ \A i \in DOMAIN requiredFields :
          /\ HasProp(result.credentials, requiredFields[i])
          /\ Truthy(GetProp(result.credentials, requiredFields[i]))

(***************************************************************************)
(* Failures (C8, C9, C10).                                                 *)
(***************************************************************************)
\* C8: when a blob variable holds a non-blank value that does not resolve
\* to a valid credential and the call fails, the failure is the specific
\* one of that value, never the generic missing failure.
C8_MalformedNotReportedMissing ==
  Returned /\ ~result.success
         /\ (\E i \in DOMAIN BlobNames :
               ValueOf(BlobNames[i]) # <<>> /\ ~HoldsValidCredential(BlobNames[i]))
  => result.error.type \in MalformedKinds

\* C9: when no variable of any list, whole or in numbered parts, holds a
\* non-blank value, the call returns the failure of kind missing with a
\* non-empty troubleshooting list.
C9_NothingSetIsMissing ==
  Called /\ (\A v \in DOMAIN env : Trim(env[v]) = <<>>)
  => /\ ~result.success
     /\ result.error.type = "missing"
     /\ result.error.troubleshooting # <<>>

\* variables are set, all of them blank, and the call has returned
C9_Witness ==
  /\ Called
  /\ Cardinality(DOMAIN env) = MaxSet
  /\ \A v \in DOMAIN env : Trim(env[v]) = <<>>
  /\ result.error.type = "missing"

\* C10: when the winning blob variable holds plain text that is not JSON
\* and on which base64 decoding is not attempted, the failure is of kind
\* invalid_json and its troubleshooting has the step about copy/paste.
C10_PlainTextIsInvalidJson ==
  Returned /\ BlobLookup.found
         /\ ~JSONParse(CleanedValue(BlobLookup.value)).ok
         /\ detectBase64Likelihood(CleanedValue(BlobLookup.value)) <= 30
  => /\ ~result.success
     /\ result.error.type = "invalid_json"
     /\ "Ensure no characters were corrupted during copy/paste"
          \in Range(result.error.troubleshooting)

(***************************************************************************)
(* Failure kinds and diagnostics of the decoder chain (C11, C12, C13).     *)
(***************************************************************************)
\* the text has the word in it
Contains(text, word) ==
  \E i \in 1..(Len(text) - Len(word) + 1) : SubSeq(text, i, i + Len(word) - 1) = word

\* the failure says something of the text
Reports(error, word) == Contains(error.message, word) \/ Contains(error.details, word)

\* the decode steps the chain runs on the winning blob value
PercentDecodeAttempted == LooksUrlEncoded(JoinLines(WinningBlob.value))
DirectParseFailed == ~ParseWithProjectId(CleanedValue(WinningBlob.value)).ok
Base64Attempted ==
  DirectParseFailed /\ detectBase64Likelihood(CleanedValue(WinningBlob.value)) > 30

\* C11: when the winning blob value starts with { and fails to parse as
\* JSON, base64 decoding is not attempted (the score is 0) and the call
\* returns the Failure of kind invalid_json.
C11_BraceTextIsInvalidJson ==
  Returned /\ WinningBlob.found /\ StartsWith(WinningBlob.value, <<"{">>) /\ DirectParseFailed
  => /\ detectBase64Likelihood(CleanedValue(WinningBlob.value)) = 0
     /\ ~result.success
     /\ result.error.type = "invalid_json"

\* C12: a Failure of kind invalid_base64 is returned only for a value on
\* which base64 decoding was attempted.
C12_InvalidBase64OnlyAfterAttempt ==
  Returned /\ WinningBlob.found /\ ~result.success /\ result.error.type = "invalid_base64"
  => Base64Attempted

\* C13: when the winning blob value fails every decode attempt, the message
\* or details of the Failure name each transformation that was attempted:
\* the direct parse, the percent-decoding, the base64 decoding.
C13_FailureNamesEveryAttempt ==
  Returned /\ BlobLookup.found /\ ~result.success
         /\ result.error.type \in { "invalid_json", "invalid_base64" }
  => /\ Reports(result.error, "JSON")
     /\ Base64Attempted => Reports(result.error, "base64")
     /\ PercentDecodeAttempted =>
          \E word \in { "URL", "url", "percent", "Percent", "%" } : Reports(result.error, word)

(***************************************************************************)
(* The result type (C14).                                                  *)
(***************************************************************************)
IsSuccessVariant(r) ==
  /\ DOMAIN r = { "success", "credentials", "projectId", "source" }
  /\ r.success = TRUE
  /\ r.credentials # Undefined
  /\ Len(r.source) > 0

IsFailureVariant(r) ==
  /\ DOMAIN r = { "success", "error" }
  /\ r.success = FALSE
  /\ DOMAIN r.error = { "type", "message", "details", "troubleshooting" }
  /\ r.error.type \in MalformedKinds \cup { "missing" }
  /\ Len(r.error.message) > 0
  /\ Len(r.error.details) > 0
  /\ Len(r.error.troubleshooting) > 0

\* C14: every call ends by returning one variant, Success (success,
\* credentials and source set, no error) or Failure (error type, message,
\* details and troubleshooting set, no credentials), and not both; no call
\* throws.
C14_ExactlyOneVariant ==
  Called => /\ ~HasThrown(result)
            /\ IsSuccessVariant(result) \/ IsFailureVariant(result)
            /\ ~(IsSuccessVariant(result) /\ IsFailureVariant(result))

(***************************************************************************)
(* Lookup (C19, C20).                                                      *)
(***************************************************************************)
\* the candidate lists
CandidateLists ==
  { SERVICE_ACCOUNT_JSON_ENV_NAMES, GOOGLE_APPLICATION_CREDENTIALS_NAMES,
    SERVICE_ACCOUNT_EMAIL_ENV_NAMES, SERVICE_ACCOUNT_KEY_ENV_NAMES, PROJECT_ID_ENV_NAMES }

\* the first place of the list whose variable holds a non-blank value
FirstSetPlace(names, i) ==
  /\ ValueOf(names[i]) # <<>>
  /\ \A j \in 1..(i - 1) : ValueOf(names[j]) = <<>>

\* the only blob variable the environment sets, whole or as a numbered
\* part, is the one called name
OnlyBlobSet(name) ==
  \A v \in DOMAIN env :
    v.base \in Range(SERVICE_ACCOUNT_JSON_ENV_NAMES) \cup Range(GOOGLE_APPLICATION_CREDENTIALS_NAMES)
    => v = Var(name)

\* C19: the lookup is priority-first: for each list, it returns the trimmed
\* value of the first name in list order whose variable is non-blank,
\* whatever later names hold; and when the only blob variable set is a
\* name of lower priority holding a valid credential, the call returns
\* Success with the project_id of that credential and a source label
\* naming that variable.
C19_PriorityFirst ==
  Called =>
    /\ \A names \in CandidateLists : \A i \in DOMAIN names :
         FirstSetPlace(names, i)
         => getFirstSetEnvWithName(env, names) = Found(names[i], ValueOf(names[i]))
    /\ \A i \in DOMAIN SERVICE_ACCOUNT_JSON_ENV_NAMES : \A c \in ValidCredentials :
         (i > 1 /\ OnlyBlobSet(SERVICE_ACCOUNT_JSON_ENV_NAMES[i])
            /\ ValueOf(SERVICE_ACCOUNT_JSON_ENV_NAMES[i]) = Stringify(c))
         => /\ result.success
            /\ result.projectId = JStr(<<"p", "1">>)
            /\ result.source = SERVICE_ACCOUNT_JSON_ENV_NAMES[i] \o " (raw JSON)"

\* two names of one list are set, the later one to a different value, and
\* the call has returned
C19_Witness ==
  /\ Called
  /\ \E names \in CandidateLists : \E i, j \in DOMAIN names :
       /\ i < j
       /\ FirstSetPlace(names, i)
       /\ ValueOf(names[j]) # <<>>
       /\ ValueOf(names[j]) # ValueOf(names[i])

\* C20: numbered parts are a fallback of lower priority: for each list the
\* lookup returns a value put together from numbered parts only when no
\* name of the whole list has a non-blank value of its own; a name of lower
\* priority set directly beats the numbered parts of a name of higher
\* priority.
C20_SplitPartsLast ==
  Called =>
    \A names \in CandidateLists :
      /\ (getFirstSetEnvWithName(env, names).found
            /\ getFirstSetEnvWithName(env, names).name \notin Range(names))
         => \A i \in DOMAIN names : ValueOf(names[i]) = <<>>
      /\ \A i, j \in DOMAIN names :
           (i < j /\ Trim(combineSplitEnv(env, names[i])) # <<>> /\ FirstSetPlace(names, j))
           => getFirstSetEnvWithName(env, names) = Found(names[j], ValueOf(names[j]))

\* a numbered part of the first blob name and the second blob name itself
\* are both set, and the call has returned
C20_Witness ==
  /\ Called
  /\ Trim(combineSplitEnv(env, SERVICE_ACCOUNT_JSON_ENV_NAMES[1])) # <<>>
  /\ FirstSetPlace(SERVICE_ACCOUNT_JSON_ENV_NAMES, 2)
  /\ steps = << "blob" >>

(***************************************************************************)
(* Vocabulary of the claims about the handlers.                            *)
(***************************************************************************)
\* the requests of the routes
RequestsTo(routes) == { k \in DOMAIN requests : requests[k].route \in routes }

\* the handler of the request at place k has answered
Answered(k) == requests[k].awaits = ""

\* what the handler of the request at place k did outside the process
EffectsOf(k) ==
  LET own == SelectSeq(effects, LAMBDA x : x.of = k)
  IN [ i \in DOMAIN own |-> own[i].effect ]

\* how the call of resolveGCPCredentials by the handler of the request at
\* place k ended; NotCalled when it did not call it
ResultOf(k) == requests[k].returned.result

\* the handler called resolveGCPCredentials, which returned a Failure
GotFailure(k) == ResultOf(k) # NotCalled /\ ~HasThrown(ResultOf(k)) /\ ~ResultOf(k).success

\* the handler called resolveGCPCredentials, which gave no credential: it
\* returned a Failure or threw
ResolutionFailed(k) == ResultOf(k) # NotCalled /\ ~ResultOf(k).success

(***************************************************************************)
(* Claims about the POST endpoints.                                        *)
(***************************************************************************)
PostRoutes ==
  { "POST /api/optimization-status", "POST /api/optimization-results",
    "POST /api/optimization-error" }

ConfiguredKey == EnvRaw(env, "DASHBOARD_API_KEY")

\* the request holds the configured key in one of the headers the handlers read
CarriesKey(request) ==
  /\ Truthy(ConfiguredKey)
  /\ \/ request.authorization = JStr(BearerOf(ConfiguredKey.s))
     \/ request.authorization = ConfiguredKey
     \/ request.xApiKey = ConfiguredKey

\* C17: every POST endpoint requires the API key in every environment: a
\* request that does not carry the dashboard API key is answered 401 and
\* its body is never processed, and a request that carries the configured
\* key as Authorization: Bearer <key> is not turned away by any of the three.
C17_EveryPostRequiresKey ==
  \A k \in RequestsTo(PostRoutes) :
    Answered(k) =>
      /\ ~CarriesKey(requests[k].request)
           => requests[k].response.status = 401 /\ EffectsOf(k) = <<>>
      /\ (Truthy(ConfiguredKey)
            /\ requests[k].request.authorization = JStr(BearerOf(ConfiguredKey.s)))
           => requests[k].response.status # 401

(***************************************************************************)
(* Claims about the handlers that build a BigQuery client.                 *)
(***************************************************************************)
ClientRoutes == { "GET /api/bigquery-data", "POST /api/optimization-results" }

Surfaces(body, error) ==
  /\ { "message", "details", "troubleshooting" } \subseteq DOMAIN body
  /\ body.message = error.message
  /\ body.details = error.details
  /\ body.troubleshooting = error.troubleshooting

\* C15: whenever resolveGCPCredentials returns a Failure to bigquery-data
\* GET or to getBigQueryClient of optimization-results, the response body
\* has the message, the details and the whole troubleshooting list of that
\* failure, unchanged.
C15_FailureSurfaced ==
  \A k \in RequestsTo(ClientRoutes) :
    (Answered(k) /\ GotFailure(k))
      => Surfaces(requests[k].response.body, ResultOf(k).error)

\* the first non-blank value of the project-id variables, trimmed; empty
\* when there is none
ExplicitProjectId ==
  IF \E i \in DOMAIN PROJECT_ID_ENV_NAMES : FirstSetPlace(PROJECT_ID_ENV_NAMES, i)
  THEN ValueOf(PROJECT_ID_ENV_NAMES[CHOOSE i \in DOMAIN PROJECT_ID_ENV_NAMES :
                                     FirstSetPlace(PROJECT_ID_ENV_NAMES, i)])
  ELSE <<>>

\* the project_id of the credential the resolver returned to the handler of
\* the request at place k
CredentialProjectId(k) ==
  IF ResultOf(k).success THEN GetProp(ResultOf(k).credentials, K_project_id) ELSE Undefined

ClientsBuilt == { i \in DOMAIN effects : effects[i].effect.op = "new BigQuery" }

\* C16: the project id of every BigQuery client built is the explicitly
\* configured one (first non-blank of PROJECT_ID_ENV_NAMES) when there is
\* one, otherwise the project_id of the successfully resolved credential,
\* otherwise the built-in default; the credential's project_id never
\* overrides a configured one.
C16_ProjectIdPrecedence ==
  \A i \in ClientsBuilt :
    effects[i].effect.projectId =
      (IF ExplicitProjectId # <<>> THEN JStr(ExplicitProjectId)
       ELSE IF Truthy(CredentialProjectId(effects[i].of)) THEN CredentialProjectId(effects[i].of)
       ELSE JStr(DEFAULT_PROJECT_ID))

\* a client was built where a project id is configured and the resolved
\* credential carries another one
C16_Witness ==
  /\ ClientsBuilt # {}
  /\ ExplicitProjectId # <<>>
  /\ \A i \in ClientsBuilt :
       /\ Truthy(CredentialProjectId(effects[i].of))
       /\ CredentialProjectId(effects[i].of) # JStr(ExplicitProjectId)
       /\ effects[i].effect.projectId = JStr(ExplicitProjectId)

(***************************************************************************)
(* Claims about the credentials-debug endpoint.                            *)
(***************************************************************************)
\* the value with other key material of the same length in the same place
SecretTwin(text) ==
  IF text = Stringify(KeyLastCredential(<<"m">>)) THEN Stringify(KeyLastCredential(<<"n">>))
  ELSE text

\* the environment that differs from e in the characters of the key
\* material only: same variables, same lengths, same formats
TwinEnv(e) == [ v \in DOMAIN e |-> SecretTwin(e[v]) ]

\* C18: the credentials-debug response has no part of a credential
\* variable's value or of its decoded content in it: an environment that
\* differs only in the secret characters of its credential values gets the
\* same response at the same time.
C18_ResponseHidesSecrets ==
  \A k \in RequestsTo({ "GET /api/credentials-debug" }) :
    credentialsDebugGET(TwinEnv(env), requests[k].request.now).response = requests[k].response

(***************************************************************************)
(* Claims about numbered parts (C21).                                      *)
(***************************************************************************)
\* the names that have numbered part variables in the environments
SplitNames == { v.base : v \in { w \in Range(EnvOrder) : w.suffix # <<>> } }

\* the part variables of a name that hold a value, with their numbers
PartsSet(baseName) ==
  { [index |-> ParseInt(IndexString(v.suffix)), value |-> env[v]] :
      v \in { w \in DOMAIN env : w.base = baseName /\ w.suffix # <<>> /\ env[w] # <<>> } }

RECURSIVE Ascending(_)
\* the values of a set of parts of distinct numbers, lowest number first,
\* one after the other
Ascending(parts) ==
  IF parts = {} THEN <<>>
  ELSE LET lowest == CHOOSE p \in parts : \A q \in parts : p.index <= q.index
       IN lowest.value \o Ascending(parts \ {lowest})

\* the list a name belongs to
ListOf(baseName) ==
  CHOOSE names \in CandidateLists : baseName \in Range(names)

\* C21: a value split across numbered part variables of one base name is
\* put together in ascending numeric order of the part numbers (part 2
\* before part 10) with no separator; the value put together is trimmed and
\* goes through the decoder and validator as a direct value does.
C21_PartsInNumericOrder ==
  Called =>
    \A baseName \in SplitNames :
      /\ combineSplitEnv(env, baseName) = Ascending(PartsSet(baseName))
      /\ getFirstSetEnvWithName(env, ListOf(baseName)).name = baseName \o " (split parts)"
           => getFirstSetEnvWithName(env, ListOf(baseName)).value
                = Trim(Ascending(PartsSet(baseName)))
      /\ (BlobLookup.found /\ BlobLookup.name = baseName \o " (split parts)" /\ steps = <<"blob">>)
           => result = ParseAndValidate(Found(baseName \o " (split parts)",
                                              Trim(Ascending(PartsSet(baseName))))).result

\* the two halves of a credential are in part 10 and part 2, part 10 listed
\* first, and the call has returned the credential
C21_Witness ==
  /\ Called
  /\ Cardinality(PartsSet(SERVICE_ACCOUNT_JSON_ENV_NAMES[1])) = 2
  /\ BlobLookup.found
  /\ BlobLookup.name = SERVICE_ACCOUNT_JSON_ENV_NAMES[1] \o " (split parts)"
  /\ BlobLookup.value = Stringify(Credential(SERVICE_ACCOUNT, <<"m">>))
  /\ steps = <<"blob">>
  /\ result.success

(***************************************************************************)
(* Claims about the validator (C22).                                       *)
(***************************************************************************)
\* the value the validator was called with: the object put together from
\* the component variables on the component path, else what the decoder
\* made of the winning blob; undefined when the validator did not run
Validated ==
  IF ~Called \/ steps = <<>> THEN Undefined
  ELSE IF steps[Len(steps)] = "parts" THEN buildCredentialsFromEnvironmentParts(env)
  ELSE LET parsed == parseServiceAccountValue(WinningBlob.value, WinningBlob.name)
       IN IF parsed.success THEN parsed.credentials ELSE Undefined

\* an object whose type is service_account
IsServiceAccount(v) == v.t = "object" /\ GetProp(v, K_type) = JStr(SERVICE_ACCOUNT)

\* the mandatory keys the object does not have
AbsentKeys(v) == { field \in Range(requiredFields) : field \notin DOMAIN v.fields }

\* the list after "Missing fields:" has the name as one of its entries
Lists(details, field) == Contains(details \o ",", " " \o ToStr(field) \o ",")

\* the result reports exactly the keys absent, or success when none is
ReportsExactly(absent) ==
  /\ result.success <=> absent = {}
  /\ absent # {} =>
       /\ result.error.type = "missing_fields"
       /\ \A field \in Range(requiredFields) :
            Lists(result.error.details, field) <=> field \in absent

\* C22: for a decoded object whose type is service_account the validator
\* reports, in one missing_fields Failure, exactly the mandatory keys that
\* are absent, all of them at once, and returns Success if and only if none
\* is absent.
C22_AllMissingFieldsAtOnce ==
  LET validated == Validated
  IN IsServiceAccount(validated) => ReportsExactly(AbsentKeys(validated))

\* an object that lacks two mandatory keys, private_key_id among them while
\* private_key is there, has been validated
C22_Witness ==
  LET validated == Validated
  IN /\ IsServiceAccount(validated)
     /\ AbsentKeys(validated) = { K_project_id, K_private_key_id }
     /\ ~result.success

(***************************************************************************)
(* Claims about the component credential assembler (C23).                  *)
(***************************************************************************)
EscapedNewline == <<"\\", "n">>
LineBreak == <<"\n">>

\* the value of the private-key component variables, as looked up
KeyComponent == getFirstSetEnv(env, SERVICE_ACCOUNT_KEY_ENV_NAMES)

\* the object the assembler built, on the component path
Assembled ==
  IF Called /\ steps # <<>> /\ steps[Len(steps)] = "parts"
  THEN buildCredentialsFromEnvironmentParts(env)
  ELSE Undefined

\* C23: when the private-key component value has the two characters
\* backslash, n in it, the private_key of the assembled credential has a
\* line break in the place of every occurrence and no occurrence left; a
\* value without them is passed through unchanged apart from trimming.
C23_KeyMaterialNormalised ==
  LET assembled == Assembled
      key == GetProp(assembled, K_private_key)
  IN assembled # Undefined =>
       /\ key.t = "string"
       /\ ~Includes(key.s, EscapedNewline)
       /\ ReplaceAll(key.s, LineBreak, EscapedNewline) = Trim(KeyComponent)
       /\ ~Includes(KeyComponent, EscapedNewline) => key.s = Trim(KeyComponent)

\* a key with two escaped newlines, one after another backslash, and blanks
\* around it was assembled
C23_Witness ==
  LET assembled == Assembled
  IN /\ assembled # Undefined
     /\ KeyComponent = <<"\\", "\\", "n", "k", "\\", "n", "m">>
     /\ GetProp(assembled, K_private_key) = JStr(<<"\\", "\n", "k", "\n", "m">>)

(***************************************************************************)
(* Claims about the query parameters of bigquery-data (C24).               *)
(***************************************************************************)
\* the queries of the request at place k, and the clients it built
Queries(k) == { i \in DOMAIN EffectsOf(k) : EffectsOf(k)[i].op = "query" }
Clients(k) == { i \in DOMAIN EffectsOf(k) : EffectsOf(k)[i].op = "new BigQuery" }

\* the text is a decimal integer, with or without a sign
IsInteger(text) ==
  /\ text # <<>>
  /\ AllDigits(IF Head(text) \in {"+", "-"} THEN Tail(text) ELSE text)

IntegerOf(text) ==
  IF Head(text) = "-" THEN 0 - ParseInt(Tail(text))
  ELSE IF Head(text) = "+" THEN ParseInt(Tail(text))
  ELSE ParseInt(text)

\* the effective value of a parameter: the default for a missing,
\* non-numeric or below-1 value, the maximum for a value above it
Effective(param, default, most) ==
  IF param = Absent \/ ~IsInteger(param.s) THEN default
  ELSE IF IntegerOf(param.s) < 1 THEN default
  ELSE IF IntegerOf(param.s) > most THEN most
  ELSE IntegerOf(param.s)

\* a table parameter that is none of the three tables
TableOutside(request) ==
  request.table # Absent /\ ToStr(request.table.s) \notin Range(validTables)

\* C24: the effective limit is an integer in 1..100 and the effective days
\* in 1..365 for every query string: a missing, non-numeric or below-1 value
\* becomes the default (10, 7), a value above the maximum the maximum; a
\* table parameter outside the three tables yields 400 and no query.
C24_ParametersSanitised ==
  \A k \in RequestsTo({ "GET /api/bigquery-data" }) :
    LET done == EffectsOf(k)
    IN /\ \A i \in Queries(k) :
            /\ done[i].params.days \in 1..365
            /\ done[i].params.days = Effective(requests[k].request.days, 7, 365)
            /\ "limit" \in DOMAIN done[i].params =>
                 /\ done[i].params.limit \in 1..100
                 /\ done[i].params.limit = Effective(requests[k].request.limit, 10, 100)
       /\ (Answered(k) /\ TableOutside(requests[k].request))
            => requests[k].response.status = 400 /\ Queries(k) = {}

(***************************************************************************)
(* Claims about the base64 gate of the decoder (C25).                      *)
(***************************************************************************)
\* the call returned what the decoder made of the winning blob
BlobDecided ==
  /\ Returned
  /\ WinningBlob.found
  /\ steps \in { <<"blob">>, <<"google_application_credentials">> }

\* the result says that the value was base64-decoded
SaysBase64Decoded ==
  IF result.success THEN Contains(result.source, "(base64-encoded JSON)")
  ELSE Contains(result.error.message, "was successfully base64 decoded")

\* a character that is no letter, digit, + or /, and no = at the end
HasForeignCharacter(s) ==
  \E i \in DOMAIN s :
    /\ s[i] \notin Base64Chars
    /\ ~(s[i] = "=" /\ \A j \in i..Len(s) : s[j] = "=")

\* the scores the detector can return, in hundredths
Scores == { 0, 20, 30, 50, 70, 90 }

\* C25: base64 decoding of a blob value is attempted only when the direct
\* JSON parse has failed and the score is above 0.3; the score is one of a
\* fixed set of values in [0,1], is 0 for a value that starts with { or [
\* or has a character outside letters, digits, + and / and trailing =, and
\* a value with more than two trailing = is never base64-decoded.
C25_Base64Gate ==
  BlobDecided =>
    LET cleanedValue == CleanedValue(WinningBlob.value)
        score == detectBase64Likelihood(cleanedValue)
    IN /\ score \in Scores
       /\ SaysBase64Decoded => ~ParseWithProjectId(cleanedValue).ok /\ score > 30
       /\ (StartsWith(cleanedValue, <<"{">>) \/ StartsWith(cleanedValue, <<"[">>)
             \/ HasForeignCharacter(cleanedValue)) => score = 0
       /\ TrailingPadding(cleanedValue) > 2 => ~SaysBase64Decoded

(***************************************************************************)
(* Claims about the provenance label (C26).                                *)
(***************************************************************************)
\* percent-decoding changed the value before the parse
PercentDecodingApplied ==
  CleanedValue(WinningBlob.value) # JoinLines(Trim(WinningBlob.value))

\* the parsed object comes from the base64-decoded text
Base64DecodingApplied == ~ParseWithProjectId(CleanedValue(WinningBlob.value)).ok

\* the words of the label after the name of the variable, in lower case
PathLabel ==
  ToLowerCase(SubSeq(result.source, Len(WinningBlob.name) + 1, Len(result.source)))

\* C26: on every Success obtained from a blob the source label names the
\* variable and the decode path that produced the parsed object: raw when
\* no transformation was applied, URL-decoded when percent-decoding was
\* applied before the parse, base64 when base64-decoding was applied.
C26_LabelNamesDecodePath ==
  (BlobDecided /\ result.success) =>
    /\ SubSeq(result.source, 1, Len(WinningBlob.name)) = WinningBlob.name
    /\ Base64DecodingApplied <=> Contains(PathLabel, "base64")
    /\ PercentDecodingApplied <=> Contains(PathLabel, "url")
    /\ (~Base64DecodingApplied /\ ~PercentDecodingApplied) <=> Contains(PathLabel, "raw")

(***************************************************************************)
(* Claims about the credential fallback of bigquery-data (C27).            *)
(***************************************************************************)
\* none of the variables that tell a GCP runtime is set
OutsideGCP ==
  \A i \in DOMAIN GCP_RUNTIME_ENV_NAMES : Var(GCP_RUNTIME_ENV_NAMES[i]) \notin DOMAIN env

\* the constructor of the client did not throw and the table is one of the
\* three
QueryDue(k) ==
  /\ requests[k].response.status = 500
       => requests[k].response.body.error # "BigQuery initialization failed"
  /\ requests[k].request.table # Absent /\ Truthy(requests[k].request.table)
       => ToStr(requests[k].request.table.s) \in Range(validTables)

\* the failure is of kind missing and the process runs outside GCP
MissingOutsideGCP(k) ==
  GotFailure(k) /\ ResultOf(k).error.type = "missing" /\ OutsideGCP

\* C27: when credential resolution fails, bigquery-data answers 500
\* 'Missing Google Cloud credentials' without any query if and only if the
\* failure kind is missing and none of K_SERVICE, FUNCTION_TARGET,
\* GAE_SERVICE, GCP_PROJECT, GOOGLE_CLOUD_PROJECT is set; in every other
\* failure case it goes on to query with Application Default Credentials
\* and passes no explicit credentials to the client.
C27_FailFastOnlyWhenMissingOutsideGCP ==
  \A k \in RequestsTo({ "GET /api/bigquery-data" }) :
    ResolutionFailed(k) =>
      LET done == EffectsOf(k)
          answer == requests[k].response
      IN /\ (answer.status = 500 /\ answer.body.error = "Missing Google Cloud credentials"
                /\ Queries(k) = {})
              <=> MissingOutsideGCP(k)
         /\ MissingOutsideGCP(k) => done = <<>>
         /\ ~MissingOutsideGCP(k) =>
              /\ \A i \in Clients(k) : done[i].credentials = Undefined
              /\ QueryDue(k) => Clients(k) # {} /\ Queries(k) # {}
              /\ answer.status = 200 =>
                   answer.body.metadata.credentialSource = "Application Default Credentials (fallback)"

(***************************************************************************)
(* Claims about the insert of optimization-results (C28).                  *)
(***************************************************************************)
Inserts(k) == { i \in DOMAIN EffectsOf(k) : EffectsOf(k)[i].op = "insert" }

\* the request got through the API-key check: no key is configured, or the
\* request carries it
PassedKeyCheck(request) == ~Truthy(ConfiguredKey) \/ CarriesKey(request)

\* the body is an object with a value for run_id, status and timestamp
HasRequiredFields(request) ==
  LET body == JSONParse(request.body)
  IN /\ body.ok
     /\ body.v.t = "object"
     /\ \A i \in DOMAIN resultsRequiredFields : Truthy(GetProp(body.v, resultsRequiredFields[i]))

\* C28: in optimization-results POST the insert is attempted only for a
\* request that passed the API-key check and has all of run_id, status and
\* timestamp (no 401 or 400 response comes after an insert), and for such a
\* request the response is 200 {success, received, run_id} whether the
\* insert succeeds, reports row errors or throws.
C28_InsertOnlyAfterChecks ==
  \A k \in RequestsTo({ "POST /api/optimization-results" }) :
    /\ Inserts(k) # {}
         => PassedKeyCheck(requests[k].request) /\ HasRequiredFields(requests[k].request)
    /\ requests[k].response.status \in {400, 401} => Inserts(k) = {}
    /\ (Answered(k) /\ PassedKeyCheck(requests[k].request)
           /\ HasRequiredFields(requests[k].request))
         => requests[k].response
              = Json(200, [success |-> TRUE, received |-> TRUE,
                           run_id |-> GetProp(JSONParse(requests[k].request.body).v, K_run_id)])

\* a request with the key and the three fields whose insert threw was
\* answered 200
C28_Witness ==
  \E k \in RequestsTo({ "POST /api/optimization-results" }) :
    /\ CarriesKey(requests[k].request)
    /\ Inserts(k) # {}
    /\ requests[k].ended = << "read", "throws" >>
    /\ requests[k].response.status = 200
    /\ requests[k].response.body.run_id = JStr(<<"r", "1">>)

(***************************************************************************)
(* Claims about the diagnostics endpoints (C29).                           *)
(***************************************************************************)
\* the credentials-debug endpoint reported valid credentials to the request
\* at place k
ReportsValid(k) ==
  /\ requests[k].route = "GET /api/credentials-debug"
  /\ "body" \in DOMAIN requests[k].response
  /\ requests[k].response.status = 200 \/ requests[k].response.body.status = "ok"

\* C29: the diagnostics agree with the resolver: in every environment in
\* which credentials-debug reports status ok with HTTP 200 (some diagnostic
\* starts with the valid mark), resolveGCPCredentials in the same
\* environment returns Success.
C29_DiagnosticsAgreeWithResolver ==
  \A k \in DOMAIN requests : ReportsValid(k) => resolution.result.success

(***************************************************************************)
(* Claims about the config-check endpoint (C30).                           *)
(***************************************************************************)
\* C30: config-check answers HTTP 200 with status ok or warning in every
\* environment: no diagnosis entry starts with the error mark, so status
\* error, the message 'Configuration issues detected' and HTTP 500 are
\* never produced, also when no credentials at all are configured.
C30_ConfigCheckNeverFails ==
  \A k \in RequestsTo({ "GET /api/config-check" }) :
    /\ requests[k].response.status = 200
    /\ requests[k].response.body.status \in { "ok", "warning" }
    /\ ~Marked(requests[k].response.body.checks.diagnosis, ERROR_MARK)
    /\ ~Contains(requests[k].response.body.message, "Configuration issues detected")

\* config-check answered where GCP_SERVICE_ACCOUNT_KEY holds text that is
\* no JSON and the resolver fails
C30_Witness ==
  \E k \in RequestsTo({ "GET /api/config-check" }) :
    /\ requests[k].response.status = 200
    /\ requests[k].response.body.status = "warning"
    /\ requests[k].response.body.checks.configuration.credentials.gcp_service_account_key.valid_json
         = JBool(FALSE)
    /\ ~resolution.result.success

====
